---- MODULE Spec2Model ----
(***************************************************************************)
(* Menu normalization and bilingual reconciliation pipeline of gLabs.      *)
(*                                                                         *)
(* Strings are modelled as sequences of tokens.  A token is a word of the  *)
(* vocabulary, the single space " ", or one of the literals the code       *)
(* searches for ("[ar-ae]", "[ar-ae]:", "(ar)", ...).  Price strings are   *)
(* sequences of single characters.  Two strings are equal iff their token  *)
(* sequences are equal.                                                    *)
(*                                                                         *)
(* A JavaScript object is a sequence of [k, v] pairs with distinct keys,   *)
(* in insertion order (string keys; none of the modelled keys is           *)
(* integer-like, so Object.keys is insertion order).                       *)
(***************************************************************************)
EXTENDS Integers, Sequences, FiniteSets, TLC

\* Longest input dataset (rows) explored.
MaxRows == 3

SP == " "
MARK == "[ar-ae]:"
SUFFIX == "[ar-ae]"

\* JavaScript undefined, and a number (tagged token sequence).
UNDEF == <<"#undefined">>
EMPTY == <<>>

----------------------------------------------------------------------------
(* String helpers                                                          *)

Last(s) == s[Len(s)]
Front(s) == SubSeq(s, 1, Len(s) - 1)

RECURSIVE TrimLeft(_)
TrimLeft(s) == IF s # <<>> /\ Head(s) = SP THEN TrimLeft(Tail(s)) ELSE s

RECURSIVE TrimRight(_)
TrimRight(s) == IF s # <<>> /\ Last(s) = SP THEN TrimRight(Front(s)) ELSE s

\* String.prototype.trim
Trim(s) == TrimRight(TrimLeft(s))

\* String.prototype.includes(tok)
Includes(s, tok) == \E j \in DOMAIN s : s[j] = tok

\* String.prototype.startsWith(tok)
StartsWith(s, tok) == s # <<>> /\ Head(s) = tok

\* String.prototype.replace(tok, ''): removes the first occurrence only
ReplaceFirst(s, tok) ==
    IF Includes(s, tok)
    THEN LET j == CHOOSE n \in DOMAIN s : s[n] = tok /\ \A m \in 1..(n - 1) : s[m] # tok
         IN  SubSeq(s, 1, j - 1) \o SubSeq(s, j + 1, Len(s))
    ELSE s

\* JavaScript truthiness of a cell value (undefined and '' are falsy)
Truthy(v) == v # UNDEF /\ v # EMPTY

\* a || b on cell values
Or(a, b) == IF Truthy(a) THEN a ELSE b

\* a || b on booleans
BoolOr(a, b) == IF a THEN TRUE ELSE b

----------------------------------------------------------------------------
(* JavaScript objects                                                      *)

Has(obj, key) == \E j \in DOMAIN obj : obj[j].k = key

\* obj[key]
Get(obj, key) ==
    IF Has(obj, key) THEN obj[CHOOSE j \in DOMAIN obj : obj[j].k = key].v ELSE UNDEF

\* obj[key] = val
Put(obj, key, val) ==
    IF Has(obj, key)
    THEN [j \in DOMAIN obj |-> IF obj[j].k = key THEN [k |-> key, v |-> val] ELSE obj[j]]
    ELSE Append(obj, [k |-> key, v |-> val])

\* delete obj[key]
Del(obj, key) == SelectSeq(obj, LAMBDA p : p.k # key)

\* Object.keys(obj)
Keys(obj) == [j \in DOMAIN obj |-> obj[j].k]

\* Set.prototype.add on an insertion-ordered Set
SetAdd(s, x) == IF Includes(s, x) THEN s ELSE Append(s, x)

Range(s) == {s[j] : j \in DOMAIN s}

NoDup(s) == \A a, b \in DOMAIN s : s[a] = s[b] => a = b

----------------------------------------------------------------------------
(* Header Normalizer                                                       *)

HEADER_MAPPINGS ==
    ("id" :> "Menu Item Id") @@ ("item id" :> "Menu Item Id") @@
    ("menu item id" :> "Menu Item Id") @@ ("item_id" :> "Menu Item Id") @@
    ("name" :> "Menu Item Name") @@ ("item name" :> "Menu Item Name") @@
    ("menu item name" :> "Menu Item Name") @@ ("title" :> "Menu Item Name") @@
    ("brand" :> "Brand Name") @@ ("brand name" :> "Brand Name") @@
    ("brand id" :> "Brand Id") @@
    ("description" :> "Description") @@ ("desc" :> "Description") @@
    ("price" :> "Price") @@ ("cost" :> "Price") @@ ("amount" :> "Price") @@
    ("calories" :> "Calories(kcal)") @@ ("kcal" :> "Calories(kcal)") @@
    ("tag" :> "Tag") @@ ("tags" :> "Tag") @@
    ("classification" :> "Classification") @@
    ("allergen" :> "Allergen") @@ ("allergens" :> "Allergen") @@
    ("external id" :> "External Id") @@ ("barcode" :> "Barcode") @@
    ("active" :> "Active") @@ ("status" :> "Active") @@ ("enabled" :> "Active") @@
    ("category" :> "Tag") @@
    ("images" :> "Image URL") @@ ("image" :> "Image URL") @@
    ("image url" :> "Image URL") @@ ("imageurl" :> "Image URL") @@
    ("modifier group" :> "Modifier Group Name") @@
    ("modifier group name" :> "Modifier Group Name") @@
    ("mod group" :> "Modifier Group Name") @@
    ("modifiergroup" :> "Modifier Group Name") @@
    ("addon group" :> "Modifier Group Name") @@
    ("modifier name" :> "Modifier Name") @@ ("modifier_name" :> "Modifier Name") @@
    ("modifiername" :> "Modifier Name") @@ ("modifier" :> "Modifier Name") @@
    ("addon" :> "Modifier Name") @@ ("addon name" :> "Modifier Name") @@
    ("sub modifier group" :> "Sub-Modifier Group Name") @@
    ("sub-modifier group" :> "Sub-Modifier Group Name") @@
    ("sub modifier name" :> "Sub-Modifier Name") @@
    ("sub-modifier name" :> "Sub-Modifier Name")

\* String.prototype.toLowerCase on one token of the vocabulary
LowerTok(t) ==
    CASE t = "Menu Item Id" -> "menu item id"
      [] t = "Menu Item Name" -> "menu item name"
      [] t = "Description" -> "description"
      [] t = "Price" -> "price"
      [] t = "Image URL" -> "image url"
      [] t = "Modifier Name" -> "modifier name"
      [] t = "Modifier Group Name" -> "modifier group name"
      [] t = "NAME" -> "name"
      [] t = "Name" -> "name"
      [] t = "ID" -> "id"
      [] t = "Foo" -> "foo"
      [] t = "(AR)" -> "(ar)"
      [] t = "(EN)" -> "(en)"
      [] t = "(AR-AE)" -> "(ar-ae)"
      [] t = "[AR]" -> "[ar]"
      [] t = "[EN]" -> "[en]"
      [] t = "[AR-AE]" -> "[ar-ae]"
      [] t = "Burger" -> "burger"
      [] t = "Fries" -> "fries"
      [] t = "Soup" -> "soup"
      [] t = "Cola" -> "cola"
      [] t = "Sizes" -> "sizes"
      [] t = "The" -> "the"
      [] t = "ML" -> "ml"
      [] t = "Chicken" -> "chicken"
      [] t = "Grilled" -> "grilled"
      [] t = "Other" -> "other"
      [] OTHER -> t

\* word.charAt(0).toUpperCase() + word.slice(1) on one lower-case token
CapTok(t) ==
    CASE t = "burger" -> "Burger"
      [] t = "fries" -> "Fries"
      [] t = "soup" -> "Soup"
      [] t = "cola" -> "Cola"
      [] t = "sizes" -> "Sizes"
      [] t = "the" -> "The"
      [] t = "chicken" -> "Chicken"
      [] t = "grilled" -> "Grilled"
      [] t = "other" -> "Other"
      [] t = "and" -> "And"
      [] OTHER -> t

\* word.toUpperCase() for the unit words
UpperTok(t) ==
    CASE t = "ml" -> "ML"
      [] t = "l" -> "L"
      [] t = "pcs" -> "PCS"
      [] OTHER -> t

LowerS(s) == [j \in DOMAIN s |-> LowerTok(s[j])]

ParenLang == {"(en)", "(ar)", "(ar-ae)"}
BracketLang == {"[en]", "[ar]", "[ar-ae]"}
ArabicLang == {"(ar)", "(ar-ae)", "[ar]", "[ar-ae]"}

\* HEADER_MAPPINGS[name] || name
MapHeader(name, fallback) ==
    IF Len(name) = 1 /\ name[1] \in DOMAIN HEADER_MAPPINGS
    THEN <<HEADER_MAPPINGS[name[1]]>>
    ELSE fallback

\* The key under which normalizeRow stores the cell of raw header `key`.
NormalizeKey(key) ==
    LET cleanKey == Trim(LowerS(key))
        isLang == Len(cleanKey) >= 2 /\ Last(cleanKey) \in (ParenLang \cup BracketLang)
        baseName == Trim(Front(cleanKey))
        mappedBase == MapHeader(baseName, baseName)
    IN  IF isLang
        THEN IF Last(cleanKey) \in ArabicLang
             THEN mappedBase \o <<SUFFIX>>
             ELSE mappedBase
        ELSE MapHeader(cleanKey, key)

RECURSIVE NormalizeFrom(_, _, _)
NormalizeFrom(row, j, normalized) ==
    IF j > Len(row) THEN normalized
    ELSE NormalizeFrom(row, j + 1, Put(normalized, NormalizeKey(row[j].k), row[j].v))

normalizeRow(row) == NormalizeFrom(row, 1, <<>>)

----------------------------------------------------------------------------
(* Title case                                                              *)

SMALL_WORDS == {"a", "an", "the", "and", "or", "but", "in", "on", "at", "to",
                "for", "of", "with", "ml", "l", "pcs"}

UNIT_WORDS == {"ml", "l", "pcs"}

\* index of the last token of the word (run of non-space tokens) starting at j
RECURSIVE WordEnd(_, _)
WordEnd(s, j) == IF j < Len(s) /\ s[j + 1] # SP THEN WordEnd(s, j + 1) ELSE j

\* the callback of words.map(...) applied to one word at position index
TitleWord(word, index) ==
    IF Len(word) = 1 /\ word[1] \in UNIT_WORDS THEN <<UpperTok(word[1])>>
    ELSE IF index > 0 /\ Len(word) = 1 /\ word[1] \in SMALL_WORDS THEN word
    ELSE <<CapTok(Head(word))>> \o Tail(word)

RECURSIVE TitleFrom(_, _, _)
TitleFrom(s, j, index) ==
    IF j > Len(s) THEN <<>>
    ELSE IF s[j] = SP THEN <<SP>> \o TitleFrom(s, j + 1, index + 1)
    ELSE LET e == WordEnd(s, j)
         IN  TitleWord(SubSeq(s, j, e), index) \o TitleFrom(s, e + 1, index)

applyTitleCase(text) == IF ~Truthy(text) THEN EMPTY ELSE TitleFrom(LowerS(text), 1, 0)

TITLE_CASE_FIELDS ==
    << <<"Menu Item Name">>, <<"Description">>, <<"Brand Name">>, <<"Tag">>,
       <<"Classification">>, <<"Routing Label">>, <<"Modifier Group Name">>,
       <<"Modifier Name">>, <<"Sub-Modifier Group Name">>, <<"Sub-Modifier Name">> >>

RECURSIVE TitleFields(_, _)
TitleFields(item, j) ==
    IF j > Len(TITLE_CASE_FIELDS) THEN item
    ELSE LET key == TITLE_CASE_FIELDS[j]
         IN  TitleFields(IF Truthy(Get(item, key))
                         THEN Put(item, key, applyTitleCase(Get(item, key)))
                         ELSE item, j + 1)

----------------------------------------------------------------------------
(* Price parsing (price strings are sequences of characters)               *)

UpperAlpha == <<"A", "B", "C", "D", "E", "F", "G", "H", "I", "J", "K", "L", "M",
                "N", "O", "P", "Q", "R", "S", "T", "U", "V", "W", "X", "Y", "Z">>
LowerAlpha == <<"a", "b", "c", "d", "e", "f", "g", "h", "i", "j", "k", "l", "m",
                "n", "o", "p", "q", "r", "s", "t", "u", "v", "w", "x", "y", "z">>
DigitChars == <<"0", "1", "2", "3", "4", "5", "6", "7", "8", "9">>

IsLetter(c) == BoolOr(Includes(UpperAlpha, c), Includes(LowerAlpha, c))
IsDigit(c) == Includes(DigitChars, c)
IsNumChar(c) == BoolOr(IsDigit(c), c \in {",", "."})

ToUpperChar(c) ==
    IF Includes(LowerAlpha, c)
    THEN UpperAlpha[CHOOSE n \in DOMAIN LowerAlpha : LowerAlpha[n] = c]
    ELSE c

\* the decimal digits of a small index, as in `${i}`
RECURSIVE NatStr(_)
NatStr(n) == IF n < 10 THEN <<DigitChars[n + 1]>>
             ELSE Append(NatStr(n \div 10), DigitChars[(n % 10) + 1])

\* cleanPrice.match(/([A-Z]{3})/i): the first three consecutive letters, or UNDEF
CurrencyMatch(s) ==
    LET hits == {j \in 1..(Len(s) - 2) : IsLetter(s[j]) /\ IsLetter(s[j + 1]) /\ IsLetter(s[j + 2])}
    IN  IF hits = {} THEN UNDEF
        ELSE LET j == CHOOSE n \in hits : \A m \in hits : n <= m
             IN  SubSeq(s, j, j + 2)

RECURSIVE NumRunEnd(_, _)
NumRunEnd(s, j) == IF j < Len(s) /\ IsNumChar(s[j + 1]) THEN NumRunEnd(s, j + 1) ELSE j

\* cleanPrice.match(/([\d,.]+)/): the first maximal run of digits, commas and dots
ValueMatch(s) ==
    LET hits == {j \in DOMAIN s : IsNumChar(s[j])}
    IN  IF hits = {} THEN UNDEF
        ELSE LET j == CHOOSE n \in hits : \A m \in hits : n <= m
             IN  SubSeq(s, j, NumRunEnd(s, j))

RECURSIVE DigitRun(_)
DigitRun(s) == IF s # <<>> /\ IsDigit(Head(s)) THEN <<Head(s)>> \o DigitRun(Tail(s)) ELSE <<>>

RECURSIVE StripZerosLeft(_)
StripZerosLeft(d) == IF Len(d) > 1 /\ Head(d) = "0" THEN StripZerosLeft(Tail(d)) ELSE d

RECURSIVE StripZerosRight(_)
StripZerosRight(d) == IF d # <<>> /\ Last(d) = "0" THEN StripZerosRight(Front(d)) ELSE d

NaN == <<"#", "NaN">>

\* parseFloat on a run of digits, commas and dots: the number (tagged "#",
\* in canonical decimal notation) denoted by the longest numeric prefix
parseFloat(s) ==
    LET int == DigitRun(s)
        rest == SubSeq(s, Len(int) + 1, Len(s))
        frac == IF rest # <<>> /\ Head(rest) = "." THEN DigitRun(Tail(rest)) ELSE <<>>
        fracC == StripZerosRight(frac)
    IN  IF int = <<>> /\ frac = <<>> THEN NaN
        ELSE <<"#">> \o (IF int = <<>> THEN <<"0">> ELSE StripZerosLeft(int))
                     \o (IF fracC = <<>> THEN <<>> ELSE <<".">> \o fracC)

NULL == <<"#null">>

parsePrice(priceStr) ==
    IF ~Truthy(priceStr) THEN [currency |-> NULL, value |-> NULL]
    ELSE LET cleanPrice == Trim(priceStr)
             currencyMatch == CurrencyMatch(cleanPrice)
             valueMatch == ValueMatch(cleanPrice)
         IN  [currency |-> IF currencyMatch # UNDEF
                           THEN [j \in 1..3 |-> ToUpperChar(currencyMatch[j])]
                           ELSE <<"A", "E", "D">>,
              value |-> IF valueMatch # UNDEF
                        THEN parseFloat(ReplaceFirst(valueMatch, ","))
                        ELSE NULL]

PriceColumn(currency) == <<"Price[">> \o currency \o <<"]">>

----------------------------------------------------------------------------
(* Google Drive links (URLs are sequences of URL tokens)                   *)

DRIVE == "drive.google.com"

\* the capture of url.match(/\/d\/([a-zA-Z0-9_-]+)/) || url.match(/id=([a-zA-Z0-9_-]+)/)
FileIdMatch(url) ==
    LET after(tok) == {j \in 1..(Len(url) - 1) : url[j] = tok /\ url[j + 1] \in {"FILE1", "FILE2"}}
        first(S) == CHOOSE n \in S : \A m \in S : n <= m
    IN  IF after("/d/") # {} THEN <<url[first(after("/d/")) + 1]>>
        ELSE IF after("id=") # {} THEN <<url[first(after("id=")) + 1]>>
        ELSE UNDEF

convertDriveLinkToDirectUrl(url) ==
    IF ~Truthy(url) THEN url
    ELSE IF Includes(url, DRIVE) /\ FileIdMatch(url) # UNDEF
         THEN <<"https://", DRIVE, "/thumbnail?", "id=">> \o FileIdMatch(url) \o <<"&sz=w1000">>
         ELSE url

----------------------------------------------------------------------------
(* State                                                                   *)

VARIABLES
    \* transformMenuData
    rawData,            \* the raw rows handed to transformMenuData (see Datasets)
    options,            \* TransformOptions: extractArabic, splitPrice, applyTitleCase
    i,                  \* loop index (0-based, as in the source)
    transformedData,    \* records pushed so far
    currentItem,        \* 0 for null, else the index in transformedData of the
                        \* record currentItem refers to (it aliases that record)
    generatedColumns,   \* insertion-ordered Set of generated column names
    currencies,         \* insertion-ordered Set of detected currency codes
    anomalies,          \* anomaly messages
    arabicCount,
    pc,                 \* "loop" while iterating, "done" after the return
    result,             \* the returned { data, stats }
    outputColumns,      \* the local outputColumns of the final phase
    origin,             \* history: origin[j] is the raw row index of record j
    merged,             \* history: raw row indices of the rows merged into a record
    \* orderColumnsCorrectly
    oData,              \* the dataset handed to orderColumnsCorrectly
    oOnce,              \* orderColumnsCorrectly(oData)
    oTwice,             \* orderColumnsCorrectly(oOnce)
    oPc,                \* "input", "once" or "twice"
    \* transformModifierData
    mRawData,           \* the raw rows handed to transformModifierData (see ModDatasets)
    mI,                 \* loop index (0-based)
    outputRows,         \* flushed records
    currentModifier,    \* the accumulator
    mGenerated,         \* insertion-ordered Set of generated column names
    mPc,                \* "loop" while iterating, "done" after the return
    mResult,            \* the returned { data, outputColumns }
    \* translateMissingArabic / translateArabicToEnglish
    tDir,               \* "ar": translateMissingArabic, "en": translateArabicToEnglish
    tInput,             \* the records as handed to the function
    tData,              \* translatedData (it shares its record objects with data)
    tBatches,           \* batches: each a sequence of 0-based indices into tData
    tNext,              \* the loop variable i of the pool loop
    tInflight,          \* indices of the batches whose request is outstanding
    tAtLaunch,          \* history: tData when the current group was launched
    tRequests,          \* history: the translationList sent for each batch
    tApplied,           \* history: batch index -> records changed by its response
    tFailed,            \* history: indices of the batches that ended in the catch
    tCount,             \* alreadyArabicCount / totalTranslated
    tProgress,          \* processingProgress.current of the calling component
    tPc,                \* "start", "pool", "done" ("idle": not called)
    \* runTransformation and the export of its result
    rMode,              \* "menu" or "modifier" (options.modifiersFormatting)
    rOpts,              \* options.autoTranslateArToEn, options.autoTranslate
    rPc,                \* the position in runTransformation, then "shown", "exported"
    rData,              \* the local data / modifierData, then the transformedData state
    rColumns,           \* the modifierOutputColumns state
    rExport,            \* the header row of the exported sheet
    \* processImageSync / executeSync
    sFn,                \* which of the two loops runs
    sItems,             \* per record: has it an http Image URL, is it matched in the asset DB
    sData,              \* per record: its Image URL and its _imageSource
    sI,                 \* loop index (0-based)
    generatedCount,
    dbCount,
    sCalls,             \* history: the generation calls started, with their answers
    sPc,                \* "loop", "done" ("idle": not called)
    \* normalizeRow
    nRow,               \* the raw row handed to normalizeRow
    nJ,                 \* how many keys forEach has visited
    nOut,               \* the object `normalized`
    nPc                 \* "loop", "done" ("idle": not called)

menuVars == <<rawData, options, i, transformedData, currentItem, generatedColumns,
              currencies, anomalies, arabicCount, pc, result, outputColumns,
              origin, merged>>

orderVars == <<oData, oOnce, oTwice, oPc>>

modVars == <<mRawData, mI, outputRows, currentModifier, mGenerated, mPc, mResult>>

trVars == <<tDir, tInput, tData, tBatches, tNext, tInflight, tAtLaunch, tRequests,
            tApplied, tFailed, tCount, tProgress, tPc>>

runVars == <<rMode, rOpts, rPc, rData, rColumns, rExport>>

syncVars == <<sFn, sItems, sData, sI, generatedCount, dbCount, sCalls, sPc>>

normVars == <<nRow, nJ, nOut, nPc>>

vars == <<menuVars, orderVars, modVars, trVars, runVars, syncVars, normVars>>

----------------------------------------------------------------------------
(* Input rows                                                              *)

Cell(key, val) == [k |-> key, v |-> val]

ID == <<"Menu Item Id">>
NAME == <<"Menu Item Name">>
DESC == <<"Description">>
PRICE == <<"Price">>
IMAGE == <<"Image URL">>
MODNAME == <<"Modifier Name">>
MODGROUP == <<"Modifier Group Name">>
IMAGE_SOURCE == <<"_imageSource">>

Ar(col) == col \o <<SUFFIX>>

\* words standing for text written in Arabic script (U+0600..U+06FF)
ArabicWords == {"AR_burger", "AR_grilled", "AR_large", "AR_sizes", "AR_small", "AR_brand",
                "AR_desc", "AR_tr"}

\* The input rows the datasets are built from
MenuRows ==
    << \* a complete primary row
       << Cell(ID, <<"1">>), Cell(NAME, <<"chicken", SP, "Burger">>),
          Cell(DESC, <<"grilled">>),
          Cell(PRICE, <<"A", "E", "D", " ", "2", "5", ".", "5", "0">>) >>,
       \* aliased headers, an empty id, a price without a currency
       << Cell(<<"ID">>, EMPTY), Cell(<<"NAME">>, <<"Fries">>), Cell(<<"cost">>, <<"3", "0">>) >>,
       \* no id column, an unknown column
       << Cell(NAME, <<"Soup">>), Cell(<<"Foo">>, <<"bar">>) >>,
       \* a translation row with a translated description
       << Cell(ID, EMPTY), Cell(NAME, <<MARK, SP, "AR_burger">>),
          Cell(DESC, <<MARK, "AR_grilled", SP>>) >>,
       \* a translation row of a modifier, without id column
       << Cell(MODGROUP, <<"Sizes">>), Cell(MODNAME, <<MARK, SP, "AR_large">>) >>,
       \* an empty row
       << Cell(ID, EMPTY), Cell(NAME, EMPTY) >>,
       \* an explicit id of the auto-generated form, a Google Drive link,
       \* a price without a number
       << Cell(ID, <<"auto-gen-", "1">>), Cell(NAME, <<"Cola", SP, "330", SP, "ml">>),
          Cell(<<"image">>, <<"https://", DRIVE, "/file", "/d/", "FILE1", "/view">>),
          Cell(PRICE, <<"u", "s", "d">>) >>,
       \* language-suffixed headers, the Arabic one first; a trailing currency
       << Cell(<<"Name", SP, "(AR)">>, <<"AR_burger">>), Cell(<<"NAME", "(EN)">>, <<"the", SP, "Other">>),
          Cell(<<"id">>, <<"2">>),
          Cell(<<"amount">>, <<"1", "2", ".", "5", " ", "s", "a", "r">>) >>,
       \* a primary row of an Arabic export: Arabic names, an English description
       << Cell(ID, <<"9">>), Cell(NAME, <<"AR_burger">>), Cell(DESC, <<"grilled">>),
          Cell(MODNAME, <<"AR_large">>) >> >>

\* A dataset is a sequence of at most MaxRows rows, each named by its index in MenuRows
Datasets == UNION {[1..n -> DOMAIN MenuRows] : n \in 0..MaxRows}

\* rawData[index], 0-based as in the source
RawRow(index) == MenuRows[rawData[index + 1]]

----------------------------------------------------------------------------
(* transformMenuData                                                       *)

NoStats == [totalRawRows |-> 0, totalItemsProcessed |-> 0, arabicTranslationsFound |-> 0,
            currenciesDetected |-> <<>>, anomalies |-> <<>>]

MenuInit ==
    /\ rawData \in Datasets
    /\ options \in [extractArabic : BOOLEAN, splitPrice : BOOLEAN, applyTitleCase : BOOLEAN]
    /\ i = 0
    /\ transformedData = <<>>
    /\ currentItem = 0
    /\ generatedColumns = <<>>
    /\ currencies = <<>>
    /\ anomalies = <<>>
    /\ arabicCount = 0
    /\ pc = "loop"
    /\ result = [data |-> <<>>, stats |-> NoStats]
    /\ outputColumns = <<>>
    /\ origin = <<>>
    /\ merged = {}

\* row['Menu Item Name'] || row['Modifier Name'] || row['Modifier Group Name'] || ''
ItemNameOf(row) == Or(Get(row, NAME), Or(Get(row, MODNAME), Or(Get(row, MODGROUP), EMPTY)))

IsTranslationRow(row) ==
    BoolOr(~Truthy(Get(row, ID)), Get(row, ID) = EMPTY) /\ StartsWith(ItemNameOf(row), MARK)

\* the companion column a translation row's name is written to
TranslationTarget(row) ==
    IF Truthy(Get(row, MODGROUP)) THEN Ar(MODGROUP)
    ELSE IF Truthy(Get(row, MODNAME)) THEN Ar(MODNAME)
    ELSE Ar(NAME)

\* a defective merge: the marker is stripped but the value is not trimmed
MergeIntoUntrimmed(item, row) ==
    LET cleanVal == ReplaceFirst(ItemNameOf(row), MARK)
        withName == Put(item, TranslationTarget(row), cleanVal)
        desc == Or(Get(row, DESC), EMPTY)
    IN  IF StartsWith(desc, MARK)
        THEN Put(withName, Ar(DESC), ReplaceFirst(desc, MARK))
        ELSE withName

\* the body of `if (currentItem) { ... }`: the updated current record
MergeInto(item, row) ==
    LET cleanVal == Trim(ReplaceFirst(ItemNameOf(row), MARK))
        withName == Put(item, TranslationTarget(row), cleanVal)
        desc == Or(Get(row, DESC), EMPTY)
    IN  IF StartsWith(desc, MARK)
        THEN Put(withName, Ar(DESC), Trim(ReplaceFirst(desc, MARK)))
        ELSE withName

MergeColumns(gen, row) ==
    LET withName == SetAdd(gen, TranslationTarget(row))
    IN  IF StartsWith(Or(Get(row, DESC), EMPTY), MARK) THEN SetAdd(withName, Ar(DESC)) ELSE withName

\* a defective anomaly: the row number counts from the first data row
OrphanAnomalyNoHeader(index, itemName) == [kind |-> "orphan", row |-> index + 1, value |-> itemName]

\* `Orphaned translation found at row ${i + 2}: "${itemName}"`
OrphanAnomaly(index, itemName) == [kind |-> "orphan", row |-> index + 2, value |-> itemName]

EmptyFileAnomaly == [kind |-> "empty", row |-> 0, value |-> EMPTY]

\* `Menu Item Id` of a new record
AssignId(newItem, index) ==
    IF ~Truthy(Get(newItem, ID)) THEN Put(newItem, ID, <<"auto-gen-">> \o NatStr(index))
    ELSE newItem

\* the Price[<CODE>] column a row yields under currency splitting, or UNDEF
SplitColumn(row) ==
    IF options.splitPrice /\ Truthy(Get(row, PRICE))
    THEN LET price == parsePrice(Get(row, PRICE))
         IN  IF price.currency # NULL /\ price.value # NULL
             THEN PriceColumn(price.currency)
             ELSE UNDEF
    ELSE UNDEF

HasDriveLink(item) == Truthy(Get(item, IMAGE)) /\ Includes(Get(item, IMAGE), DRIVE)

\* the new record up to and including currency splitting
PricedItem(row, index) ==
    LET withId == AssignId(row, index)
        noPrice == Del(withId, PRICE)
        titled == IF options.applyTitleCase THEN TitleFields(noPrice, 1) ELSE noPrice
    IN  IF SplitColumn(row) # UNDEF
        THEN Put(titled, SplitColumn(row), parsePrice(Get(row, PRICE)).value)
        ELSE titled

\* the record built from a primary row
NewItem(row, index) ==
    LET priced == PricedItem(row, index)
    IN  IF HasDriveLink(priced)
        THEN Put(priced, IMAGE, convertDriveLinkToDirectUrl(Get(priced, IMAGE)))
        ELSE priced

\* the columns a primary row adds to generatedColumns
PrimaryColumns(gen, row, newItem) ==
    LET withPrice == IF SplitColumn(row) # UNDEF THEN SetAdd(gen, SplitColumn(row)) ELSE gen
    IN  IF HasDriveLink(newItem) THEN SetAdd(withPrice, IMAGE) ELSE withPrice

\* the codes a primary row adds to currencies
PrimaryCurrencies(cur, row) ==
    IF SplitColumn(row) # UNDEF THEN SetAdd(cur, parsePrice(Get(row, PRICE)).currency) ELSE cur

Looping == pc = "loop" /\ rawData # <<>> /\ i < Len(rawData)

CurrentRow == normalizeRow(RawRow(i))

\* rawData is empty: the early return
ReturnEmpty ==
    /\ pc = "loop" /\ rawData = <<>>
    /\ result' = [data |-> <<>>,
                  stats |-> [NoStats EXCEPT !.anomalies = <<EmptyFileAnomaly>>]]
    /\ pc' = "done"
    /\ UNCHANGED <<rawData, options, i, transformedData, currentItem, generatedColumns,
                   currencies, anomalies, arabicCount, outputColumns, origin, merged>>
    /\ UNCHANGED <<orderVars, modVars, trVars, runVars, syncVars, normVars>>

\* a translation row while a current record exists
MergeTranslation ==
    /\ Looping
    /\ options.extractArabic
    /\ currentItem # 0
    /\ LET row == CurrentRow
       IN  /\ IsTranslationRow(row)
           /\ transformedData' = [transformedData EXCEPT
                                    ![currentItem] = MergeInto(transformedData[currentItem], row)]
           /\ generatedColumns' = MergeColumns(generatedColumns, row)
    /\ arabicCount' = arabicCount + 1
    /\ merged' = merged \cup {i}
    /\ i' = i + 1
    /\ UNCHANGED <<rawData, options, currentItem, currencies, anomalies, pc, result,
                   outputColumns, origin>>
    /\ UNCHANGED <<orderVars, modVars, trVars, runVars, syncVars, normVars>>

\* a translation row with no current record
OrphanTranslation ==
    /\ Looping
    /\ options.extractArabic
    /\ currentItem = 0
    /\ LET row == CurrentRow
       IN  /\ IsTranslationRow(row)
           /\ anomalies' = Append(anomalies, OrphanAnomaly(i, ItemNameOf(row)))
    /\ i' = i + 1
    /\ UNCHANGED <<rawData, options, transformedData, currentItem, generatedColumns,
                   currencies, arabicCount, pc, result, outputColumns, origin, merged>>
    /\ UNCHANGED <<orderVars, modVars, trVars, runVars, syncVars, normVars>>

\* a row with an id or a name becomes a record
CreatePrimary ==
    /\ Looping
    /\ LET row == CurrentRow
           newItem == NewItem(row, i)
       IN  /\ ~(IsTranslationRow(row) /\ options.extractArabic)
           /\ BoolOr(Truthy(Get(row, ID)), Truthy(ItemNameOf(row)))
           /\ transformedData' = Append(transformedData, newItem)
           /\ currencies' = PrimaryCurrencies(currencies, row)
           /\ generatedColumns' = PrimaryColumns(generatedColumns, row, newItem)
    /\ currentItem' = Len(transformedData) + 1
    /\ origin' = Append(origin, i)
    /\ i' = i + 1
    /\ UNCHANGED <<rawData, options, anomalies, arabicCount, pc, result, outputColumns, merged>>
    /\ UNCHANGED <<orderVars, modVars, trVars, runVars, syncVars, normVars>>

\* a row with neither id nor name
SkipRow ==
    /\ Looping
    /\ LET row == CurrentRow
       IN  /\ ~(IsTranslationRow(row) /\ options.extractArabic)
           /\ ~BoolOr(Truthy(Get(row, ID)), Truthy(ItemNameOf(row)))
    /\ i' = i + 1
    /\ UNCHANGED <<rawData, options, transformedData, currentItem, generatedColumns,
                   currencies, anomalies, arabicCount, pc, result, outputColumns,
                   origin, merged>>
    /\ UNCHANGED <<orderVars, modVars, trVars, runVars, syncVars, normVars>>

\* Array.from(currencies).sort(): ascending by code units
RECURSIVE LexLess(_, _)
LexLess(a, b) ==
    LET rank(c) == CHOOSE n \in DOMAIN UpperAlpha : UpperAlpha[n] = c
    IN  IF a = <<>> THEN b # <<>>
        ELSE IF b = <<>> THEN FALSE
        ELSE IF Head(a) = Head(b) THEN LexLess(Tail(a), Tail(b))
        ELSE rank(Head(a)) < rank(Head(b))

RECURSIVE SortCodes(_)
SortCodes(S) ==
    IF S = {} THEN <<>>
    ELSE LET least == CHOOSE c \in S : \A d \in S \ {c} : LexLess(c, d)
         IN  <<least>> \o SortCodes(S \ {least})

\* normalizedInputColumns.forEach(...): the columns of the first row, each
\* followed by its generated [ar-ae] counterpart
RECURSIVE PairColumns(_, _, _, _)
PairColumns(cols, gen, j, out) ==
    IF j > Len(cols) THEN out
    ELSE LET col == cols[j]
             arabicCol == col \o <<SUFFIX>>
         IN  IF Includes(out, col) THEN PairColumns(cols, gen, j + 1, out)
             ELSE PairColumns(cols, gen, j + 1,
                              IF Includes(gen, arabicCol)
                              THEN out \o <<col, arabicCol>>
                              ELSE Append(out, col))

\* Array.from(generatedColumns).forEach(...): the generated columns not yet emitted
RECURSIVE AppendRemaining(_, _, _)
AppendRemaining(gen, j, out) ==
    IF j > Len(gen) THEN out
    ELSE AppendRemaining(gen, j + 1, IF Includes(out, gen[j]) THEN out ELSE Append(out, gen[j]))

BuildOutputColumns(normalizedInputColumns, gen) ==
    AppendRemaining(gen, 1, PairColumns(normalizedInputColumns, gen, 1, <<>>))

\* the cell written for `key` when a record is re-indexed
FillCell(item, key) == IF Get(item, key) # UNDEF /\ Get(item, key) # NULL THEN Get(item, key) ELSE EMPTY

RECURSIVE Reindex(_, _, _, _)
Reindex(item, cols, j, orderedItem) ==
    IF j > Len(cols) THEN orderedItem
    ELSE Reindex(item, cols, j + 1, Put(orderedItem, cols[j], FillCell(item, cols[j])))

\* the callback of transformedData.map(...)
OrderItem(item, cols) ==
    Put(Reindex(item, cols, 1, <<>>), IMAGE_SOURCE, Or(Get(item, IMAGE_SOURCE), <<"none">>))

\* a defective stats object: every raw row is counted as a processed item
StatsCountingRows(raw, data, count, codes, found) ==
    [totalRawRows |-> Len(raw),
     totalItemsProcessed |-> Len(raw),
     arabicTranslationsFound |-> count,
     currenciesDetected |-> SortCodes(Range(codes)),
     anomalies |-> found]

\* the stats object of the returned value
Stats(raw, data, count, codes, found) ==
    [totalRawRows |-> Len(raw),
     totalItemsProcessed |-> Len(data),
     arabicTranslationsFound |-> count,
     currenciesDetected |-> SortCodes(Range(codes)),
     anomalies |-> found]

\* after the loop: the output columns, the re-indexed records and the stats
BuildOutput ==
    /\ pc = "loop" /\ rawData # <<>> /\ i = Len(rawData)
    /\ LET normalizedInputColumns == Keys(normalizeRow(RawRow(0)))
           cols == BuildOutputColumns(normalizedInputColumns, generatedColumns)
       IN  /\ outputColumns' = cols
           /\ result' = [data |-> [j \in DOMAIN transformedData |-> OrderItem(transformedData[j], cols)],
                         stats |-> Stats(rawData, transformedData, arabicCount, currencies, anomalies)]
    /\ pc' = "done"
    /\ UNCHANGED <<rawData, options, i, transformedData, currentItem, generatedColumns,
                   currencies, anomalies, arabicCount, origin, merged>>
    /\ UNCHANGED <<orderVars, modVars, trVars, runVars, syncVars, normVars>>

\* transformMenuData is not running
MenuIdle ==
    /\ rawData = <<>>
    /\ options = [extractArabic |-> TRUE, splitPrice |-> TRUE, applyTitleCase |-> TRUE]
    /\ i = 0
    /\ transformedData = <<>>
    /\ currentItem = 0
    /\ generatedColumns = <<>>
    /\ currencies = <<>>
    /\ anomalies = <<>>
    /\ arabicCount = 0
    /\ pc = "idle"
    /\ result = [data |-> <<>>, stats |-> NoStats]
    /\ outputColumns = <<>>
    /\ origin = <<>>
    /\ merged = {}

----------------------------------------------------------------------------
(* orderColumnsCorrectly                                                   *)

\* Widest row and longest dataset handed to orderColumnsCorrectly.
MaxOrderCols == 2
MaxOrderRows == 2

COL_A == <<"A">>
COL_B == <<"B">>

\* the column names the datasets are built from: two base columns, their
\* companions, and a companion written with a space before the suffix
OrderCols == {COL_A, COL_B, Ar(COL_A), Ar(COL_B), <<"A", SP, SUFFIX>>}

\* the key lists of a row: distinct columns in any order
KeyLists == {ks \in UNION {[1..n -> OrderCols] : n \in 0..MaxOrderCols} : NoDup(ks)}

\* the row with these keys at position r of a dataset; cells hold the row number
RowOf(ks, r) == [j \in DOMAIN ks |-> Cell(ks[j], <<"v", DigitChars[r + 1]>>)]

OrderDatasets ==
    {[r \in DOMAIN kss |-> RowOf(kss[r], r)] : kss \in UNION {[1..n -> KeyLists] : n \in 0..MaxOrderRows}}

\* data.forEach(row => Object.keys(row).forEach(c => allCols.add(c)))
RECURSIVE AddAll(_, _, _)
AddAll(set, cols, j) == IF j > Len(cols) THEN set ELSE AddAll(SetAdd(set, cols[j]), cols, j + 1)

RECURSIVE AllCols(_, _, _)
AllCols(data, r, set) ==
    IF r > Len(data) THEN set ELSE AllCols(data, r + 1, AddAll(set, Keys(data[r]), 1))

IsArabicCol(col) == Includes(col, SUFFIX)

\* col.replace('[ar-ae]', '').trim()
BaseOf(col) == Trim(ReplaceFirst(col, SUFFIX))

\* baseCols: the columns without the suffix, in first-seen order
BaseCols(allCols) == SelectSeq(allCols, LAMBDA col : ~IsArabicCol(col))

\* arabicMap: base name -> suffixed column (Map.set keeps the position of a
\* key that is set again and replaces its value)
RECURSIVE ArabicMap(_, _, _)
ArabicMap(allCols, j, map) ==
    IF j > Len(allCols) THEN map
    ELSE ArabicMap(allCols, j + 1,
                   IF IsArabicCol(allCols[j]) THEN Put(map, BaseOf(allCols[j]), allCols[j]) ELSE map)

\* baseCols.forEach(...): each base column followed by its counterpart
RECURSIVE PairBases(_, _, _, _)
PairBases(baseCols, j, map, ordered) ==
    IF j > Len(baseCols) THEN [ordered |-> ordered, map |-> map]
    ELSE LET base == baseCols[j]
             arabic == Or(Get(map, base), Get(map, Trim(base)))
         IN  IF Truthy(arabic)
             THEN PairBases(baseCols, j + 1, Del(Del(map, base), Trim(base)),
                            ordered \o <<base, arabic>>)
             ELSE PairBases(baseCols, j + 1, map, Append(ordered, base))

\* arabicMap.forEach(...): the counterparts without a base column
RECURSIVE AppendOrphans(_, _, _)
AppendOrphans(map, j, ordered) ==
    IF j > Len(map) THEN ordered
    ELSE AppendOrphans(map, j + 1,
                       IF Includes(ordered, map[j].v) THEN ordered ELSE Append(ordered, map[j].v))

\* the list `ordered` orderColumnsCorrectly computes for a dataset
OrderedColumns(data) ==
    LET allCols == AllCols(data, 1, <<>>)
        paired == PairBases(BaseCols(allCols), 1, ArabicMap(allCols, 1, <<>>), <<>>)
    IN  AppendOrphans(paired.map, 1, paired.ordered)

\* the callback of data.map(...): the cells of the row in the order of `ordered`
RECURSIVE ReorderRow(_, _, _, _)
ReorderRow(row, ordered, j, newRow) ==
    IF j > Len(ordered) THEN newRow
    ELSE ReorderRow(row, ordered, j + 1,
                    IF Has(row, ordered[j]) THEN Put(newRow, ordered[j], Get(row, ordered[j]))
                    ELSE newRow)

orderColumnsCorrectly(data) ==
    IF data = <<>> THEN data
    ELSE LET ordered == OrderedColumns(data)
         IN  [r \in DOMAIN data |-> ReorderRow(data[r], ordered, 1, <<>>)]

OrderInit ==
    /\ oData \in OrderDatasets
    /\ oOnce = <<>>
    /\ oTwice = <<>>
    /\ oPc = "input"

OrderIdle ==
    /\ oData = <<>>
    /\ oOnce = <<>>
    /\ oTwice = <<>>
    /\ oPc = "idle"

\* the first call
OrderOnce ==
    /\ oPc = "input"
    /\ oOnce' = orderColumnsCorrectly(oData)
    /\ oPc' = "once"
    /\ UNCHANGED <<oData, oTwice>>
    /\ UNCHANGED <<menuVars, modVars, trVars, runVars, syncVars, normVars>>

\* the call on the result of the first
OrderTwice ==
    /\ oPc = "once"
    /\ oTwice' = orderColumnsCorrectly(oOnce)
    /\ oPc' = "twice"
    /\ UNCHANGED <<oData, oOnce>>
    /\ UNCHANGED <<menuVars, modVars, trVars, runVars, syncVars, normVars>>

----------------------------------------------------------------------------
(* transformModifierData                                                   *)

\* Longest modifier export explored.
MaxModRows == 3

GID == <<"Modifier Group Template Id">>
GNAME == <<"Modifier Group Template Name">>
MID == <<"Modifier Id">>
BRAND == <<"Brand Name">>
MPRICE == <<"Modifier Price">>
MCURRENCY == <<"Modifier Price Currency">>

\* the markers matching /^\[[a-z]{2}(-[a-z]{2})?\]:/, and those matching /^\[([^\]]+)\]:/
LowerMarkers == {"[ar-ae]:", "[fr]:"}
AnyMarkers == LowerMarkers \cup {"[AR-AE]:"}

\* the lower-cased bracket content of a marker
LangCode(marker) ==
    CASE marker = "[ar-ae]:" -> "ar-ae"
      [] marker = "[AR-AE]:" -> "ar-ae"
      [] marker = "[fr]:" -> "fr"

isTranslationValue(value) ==
    IF ~Truthy(value) THEN FALSE
    ELSE Trim(value) # <<>> /\ Head(Trim(value)) \in LowerMarkers

\* the `null` of parseTranslation: no marker, or nothing after it
NoTranslation == [langCode |-> "", text |-> <<>>]

\* { langCode, text } or null
parseTranslation(value) ==
    LET v == Trim(value)
    IN  IF Len(v) >= 2 /\ Head(v) \in AnyMarkers
        THEN [langCode |-> LangCode(Head(v)), text |-> Trim(Tail(v))]
        ELSE NoTranslation

hasArabicText(text) ==
    IF ~Truthy(text) THEN FALSE ELSE \E j \in DOMAIN text : text[j] \in ArabicWords

\* String(row[key] || '')
StringOf(row, key) == Or(Get(row, key), EMPTY)

isTranslationRow(row) ==
    LET hasEmptyIds == ~Truthy(Get(row, GID)) /\ ~Truthy(Get(row, MID))
        hasTranslationPattern == BoolOr(isTranslationValue(StringOf(row, GNAME)),
                                        isTranslationValue(StringOf(row, MODNAME)))
    IN  hasEmptyIds /\ hasTranslationPattern

\* does the value carry an ar-ae translation that is merged
MergesArabic(value) ==
    /\ isTranslationValue(value)
    /\ parseTranslation(value) # NoTranslation
    /\ parseTranslation(value).langCode = "ar-ae"

\* the accumulator after a translation row
MergeModifierTranslation(cur, row) ==
    LET groupName == StringOf(row, GNAME)
        modifierName == StringOf(row, MODNAME)
        withGroup == IF MergesArabic(groupName)
                     THEN Put(cur, Ar(GNAME), parseTranslation(groupName).text) ELSE cur
    IN  IF MergesArabic(modifierName)
        THEN Put(withGroup, Ar(MODNAME), parseTranslation(modifierName).text) ELSE withGroup

TranslationColumns(gen, row) ==
    LET withGroup == IF MergesArabic(StringOf(row, GNAME)) THEN SetAdd(gen, Ar(GNAME)) ELSE gen
    IN  IF MergesArabic(StringOf(row, MODNAME)) THEN SetAdd(withGroup, Ar(MODNAME)) ELSE withGroup

\* `if (row[field]) { ... }`: an Arabic value moves to the companion and the
\* base field is blanked
MoveArabic(cur, row, field) ==
    LET value == StringOf(row, field)
    IN  IF ~Truthy(Get(row, field)) THEN cur
        ELSE IF hasArabicText(value)
             THEN Put(Put(cur, field, EMPTY), Ar(field), value)
             ELSE Put(cur, field, value)

MoveArabicColumn(gen, row, field) ==
    IF Truthy(Get(row, field)) /\ hasArabicText(StringOf(row, field))
    THEN SetAdd(gen, Ar(field)) ELSE gen

HasModifierPrice(row) == Truthy(Get(row, MPRICE)) /\ Truthy(Get(row, MCURRENCY))

\* `Price[${String(row['Modifier Price Currency']).toUpperCase()}]`
ModifierPriceColumn(row) ==
    PriceColumn([j \in DOMAIN Get(row, MCURRENCY) |-> ToUpperChar(Get(row, MCURRENCY)[j])])

WithModifierPrice(cur, row) ==
    IF HasModifierPrice(row) THEN Put(cur, ModifierPriceColumn(row), Get(row, MPRICE)) ELSE cur

ModifierPriceColumns(gen, row) ==
    IF HasModifierPrice(row) THEN SetAdd(gen, ModifierPriceColumn(row)) ELSE gen

\* the accumulator seeded from a row carrying a group id
SeedFromGroupRow(row) ==
    WithModifierPrice(MoveArabic(MoveArabic(MoveArabic(row, row, GNAME), row, BRAND), row, MODNAME), row)

GroupRowColumns(gen, row) ==
    ModifierPriceColumns(
        MoveArabicColumn(MoveArabicColumn(MoveArabicColumn(gen, row, GNAME), row, BRAND), row, MODNAME),
        row)

\* the accumulator seeded from a row carrying only a modifier id
SeedFromModifierRow(row) == WithModifierPrice(MoveArabic(row, row, MODNAME), row)

ModifierRowColumns(gen, row) == ModifierPriceColumns(MoveArabicColumn(gen, row, MODNAME), row)

\* `if (Object.keys(currentModifier).length > 0) outputRows.push({ ...currentModifier })`
Flush(rows, cur) == IF Len(Keys(cur)) > 0 THEN Append(rows, cur) ELSE rows

\* The rows the modifier exports are built from
ModRows ==
    << \* a group row with its first modifier, in English, with a price
       << Cell(GID, <<"g1">>), Cell(GNAME, <<"Sizes">>), Cell(MID, <<"m1">>),
          Cell(MODNAME, <<"Large">>), Cell(MPRICE, <<"5">>), Cell(MCURRENCY, <<"a", "e", "d">>) >>,
       \* a group row whose names are Arabic
       << Cell(GID, <<"g2">>), Cell(GNAME, <<"AR_sizes">>), Cell(BRAND, <<"AR_brand">>),
          Cell(MID, <<"m2">>), Cell(MODNAME, <<"AR_large">>) >>,
       \* a modifier row continuing the group
       << Cell(GID, EMPTY), Cell(GNAME, EMPTY), Cell(MID, <<"m3">>), Cell(MODNAME, <<"Small">>) >>,
       \* a translation row
       << Cell(GID, EMPTY), Cell(GNAME, <<MARK, "AR_sizes">>), Cell(MID, EMPTY),
          Cell(MODNAME, <<MARK, SP, "AR_large">>) >>,
       \* a translation row in another language
       << Cell(MODNAME, <<"[fr]:", "Grand">>) >>,
       \* an empty row
       << Cell(GID, EMPTY), Cell(MID, EMPTY), Cell(MODNAME, EMPTY) >>,
       \* a modifier row of a re-imported file: the companion column comes first
       << Cell(Ar(MODNAME), <<"AR_small">>), Cell(MID, <<"m4">>), Cell(MODNAME, <<"Small">>) >> >>

ModDatasets == UNION {[1..n -> DOMAIN ModRows] : n \in 0..MaxModRows}

\* rawData[index], 0-based as in the source
ModRawRow(index) == ModRows[mRawData[index + 1]]

ModInit ==
    /\ mRawData \in ModDatasets
    /\ mI = 0
    /\ outputRows = <<>>
    /\ currentModifier = <<>>
    /\ mGenerated = <<>>
    /\ mPc = "loop"
    /\ mResult = [data |-> <<>>, outputColumns |-> <<>>]

ModIdle ==
    /\ mRawData = <<>>
    /\ mI = 0
    /\ outputRows = <<>>
    /\ currentModifier = <<>>
    /\ mGenerated = <<>>
    /\ mPc = "idle"
    /\ mResult = [data |-> <<>>, outputColumns |-> <<>>]

ModLooping == mPc = "loop" /\ mRawData # <<>> /\ mI < Len(mRawData)

\* rawData is empty: the early return
ModReturnEmpty ==
    /\ mPc = "loop" /\ mRawData = <<>>
    /\ mResult' = [data |-> <<>>, outputColumns |-> <<>>]
    /\ mPc' = "done"
    /\ UNCHANGED <<mRawData, mI, outputRows, currentModifier, mGenerated>>
    /\ UNCHANGED <<menuVars, orderVars, trVars, runVars, syncVars, normVars>>

\* a translation row is merged into the accumulator
ModTranslationRow ==
    /\ ModLooping
    /\ LET row == ModRawRow(mI)
       IN  /\ isTranslationRow(row)
           /\ currentModifier' = MergeModifierTranslation(currentModifier, row)
           /\ mGenerated' = TranslationColumns(mGenerated, row)
    /\ mI' = mI + 1
    /\ UNCHANGED <<mRawData, outputRows, mPc, mResult>>
    /\ UNCHANGED <<menuVars, orderVars, trVars, runVars, syncVars, normVars>>

\* a row with a group id flushes the accumulator and seeds a new one
ModGroupRow ==
    /\ ModLooping
    /\ LET row == ModRawRow(mI)
       IN  /\ ~isTranslationRow(row)
           /\ Truthy(Get(row, GID))
           /\ outputRows' = Flush(outputRows, currentModifier)
           /\ currentModifier' = SeedFromGroupRow(row)
           /\ mGenerated' = GroupRowColumns(mGenerated, row)
    /\ mI' = mI + 1
    /\ UNCHANGED <<mRawData, mPc, mResult>>
    /\ UNCHANGED <<menuVars, orderVars, trVars, runVars, syncVars, normVars>>

\* a row with only a modifier id does the same, the group fields left as they are
ModModifierRow ==
    /\ ModLooping
    /\ LET row == ModRawRow(mI)
       IN  /\ ~isTranslationRow(row)
           /\ ~Truthy(Get(row, GID))
           /\ Truthy(Get(row, MID))
           /\ outputRows' = Flush(outputRows, currentModifier)
           /\ currentModifier' = SeedFromModifierRow(row)
           /\ mGenerated' = ModifierRowColumns(mGenerated, row)
    /\ mI' = mI + 1
    /\ UNCHANGED <<mRawData, mPc, mResult>>
    /\ UNCHANGED <<menuVars, orderVars, trVars, runVars, syncVars, normVars>>

\* a row with neither id that is no translation row
ModSkipRow ==
    /\ ModLooping
    /\ LET row == ModRawRow(mI)
       IN  /\ ~isTranslationRow(row)
           /\ ~Truthy(Get(row, GID))
           /\ ~Truthy(Get(row, MID))
    /\ mI' = mI + 1
    /\ UNCHANGED <<mRawData, outputRows, currentModifier, mGenerated, mPc, mResult>>
    /\ UNCHANGED <<menuVars, orderVars, trVars, runVars, syncVars, normVars>>

\* after the loop: the last flush, the output columns and the re-indexed rows
ModFinish ==
    /\ mPc = "loop" /\ mRawData # <<>> /\ mI = Len(mRawData)
    /\ LET flushed == Flush(outputRows, currentModifier)
           originalColumns == Keys(ModRawRow(0))
           cols == BuildOutputColumns(originalColumns, mGenerated)
       IN  /\ outputRows' = flushed
           /\ mResult' = [data |-> [j \in DOMAIN flushed |-> Reindex(flushed[j], cols, 1, <<>>)],
                          outputColumns |-> cols]
    /\ mPc' = "done"
    /\ UNCHANGED <<mRawData, mI, currentModifier, mGenerated>>
    /\ UNCHANGED <<menuVars, orderVars, trVars, runVars, syncVars, normVars>>

----------------------------------------------------------------------------
(* translateMissingArabic and translateArabicToEnglish                     *)

batchSize == 25
concurrency == 3

\* Longest run of hand-picked records, and the most batches of filler records.
MaxPrefix == 2
MaxFill == 3

\* the bilingual fields both directions handle, in the order of the source
TR_FIELDS == <<NAME, DESC, BRAND, MODGROUP, MODNAME>>

\* the companions translateMissingArabic writes only while they are empty
GuardedFields == {NAME, DESC, BRAND}

\* the first pass on one record: an Arabic source is copied to its empty companion
FirstPass(item) ==
    LET RECURSIVE Copy(_, _)
        Copy(it, j) ==
            IF j > Len(TR_FIELDS) THEN it
            ELSE LET f == TR_FIELDS[j]
                     src == StringOf(it, f)
                 IN  Copy(IF Truthy(src) /\ hasArabicText(src) /\ ~Truthy(Get(it, Ar(f)))
                          THEN Put(it, Ar(f), src) ELSE it, j + 1)
    IN  Copy(item, 1)

\* the filter of the second pass
NeedsArabic(item) ==
    \E j \in DOMAIN TR_FIELDS :
        LET src == StringOf(item, TR_FIELDS[j])
        IN  Truthy(src) /\ ~hasArabicText(src) /\ ~Truthy(Get(item, Ar(TR_FIELDS[j])))

\* a defective request: every source text is sent, Arabic or not
ArabicRequestUnfiltered(item) ==
    [id |-> Get(item, ID),
     texts |-> [j \in DOMAIN TR_FIELDS |-> StringOf(item, TR_FIELDS[j])]]

\* one entry of the translationList of translateMissingArabic
ArabicRequest(item) ==
    [id |-> Get(item, ID),
     texts |-> [j \in DOMAIN TR_FIELDS |->
                   LET src == StringOf(item, TR_FIELDS[j])
                   IN  IF Truthy(src) /\ ~hasArabicText(src) THEN src ELSE EMPTY]]

\* (item['Modifier Group Name'] || item['Modifier Group Template Name'] || '') for
\* the modifier group, (item[f] || '') for the other fields
MainOf(item, f) ==
    IF f = MODGROUP THEN Or(Get(item, MODGROUP), Or(Get(item, GNAME), EMPTY)) ELSE StringOf(item, f)

CompanionOf(item, f) ==
    IF f = MODGROUP THEN Or(Get(item, Ar(MODGROUP)), Or(Get(item, Ar(GNAME)), EMPTY))
    ELSE StringOf(item, Ar(f))

\* the filter of translateArabicToEnglish
NeedsEnglish(item) ==
    \E j \in DOMAIN TR_FIELDS :
        BoolOr(hasArabicText(MainOf(item, TR_FIELDS[j])), hasArabicText(CompanionOf(item, TR_FIELDS[j])))

\* one entry of the translationList of translateArabicToEnglish
EnglishRequest(item) ==
    [id |-> Or(Get(item, ID), Get(item, MID)),
     texts |-> [j \in DOMAIN TR_FIELDS |->
                   LET main == MainOf(item, TR_FIELDS[j])
                       comp == CompanionOf(item, TR_FIELDS[j])
                   IN  IF hasArabicText(main) THEN main
                       ELSE IF hasArabicText(comp) THEN comp ELSE EMPTY]]

\* itemsToTranslate, as 0-based indices into the data
Selected(data, dir) ==
    SelectSeq([j \in DOMAIN data |-> j - 1],
              LAMBDA idx : IF dir = "ar" THEN NeedsArabic(data[idx + 1]) ELSE NeedsEnglish(data[idx + 1]))

\* a defective pool: slices of batchSize + 1 records taken every batchSize records
MakeBatchesOverlapping(items) ==
    LET RECURSIVE Slice(_, _)
        Slice(from, out) ==
            IF from >= Len(items) THEN out
            ELSE Slice(from + batchSize,
                       Append(out, SubSeq(items, from + 1,
                                          IF from + batchSize + 1 < Len(items) THEN from + batchSize + 1
                                          ELSE Len(items))))
    IN  Slice(0, <<>>)

\* `for (i = 0; i < items.length; i += batchSize) batches.push(items.slice(i, i + batchSize))`
MakeBatches(items) ==
    LET RECURSIVE Slice(_, _)
        Slice(from, out) ==
            IF from >= Len(items) THEN out
            ELSE Slice(from + batchSize,
                       Append(out, SubSeq(items, from + 1,
                                          IF from + batchSize < Len(items) THEN from + batchSize
                                          ELSE Len(items))))
    IN  Slice(0, <<>>)

\* item[key] of every record, in order
Column(data, key) == SubSeq([j \in DOMAIN data |-> Get(data[j], key)], 1, Len(data))

\* translatedData.findIndex(item => item[key] === id) on the column of that
\* key: 0-based, -1 when absent
FindIndex(column, id) ==
    LET hits == {j \in DOMAIN column : column[j] = id}
    IN  IF hits = {} THEN -1 ELSE (CHOOSE j \in hits : \A k \in hits : j <= k) - 1

\* the index results.forEach finds for an entry: by Menu Item Id, and in
\* translateArabicToEnglish by Modifier Id when that finds nothing
ResultIndex(ids, modifierIds, dir, id) ==
    LET byItem == FindIndex(ids, id)
    IN  IF dir = "en" /\ byItem = -1 THEN FindIndex(modifierIds, id) ELSE byItem

\* the body of `if (index !== -1)` of translateMissingArabic, on the record found
ApplyArabic(item, res) ==
    LET RECURSIVE Write(_, _)
        Write(it, j) ==
            IF j > Len(TR_FIELDS) THEN it
            ELSE LET f == TR_FIELDS[j]
                 IN  Write(IF /\ Truthy(Get(it, f))
                              /\ Truthy(res.texts[j])
                              /\ (f \in GuardedFields => ~Truthy(Get(it, Ar(f))))
                           THEN Put(it, Ar(f), res.texts[j]) ELSE it, j + 1)
    IN  Write(item, 1)

\* the body of `if (index !== -1)` of translateArabicToEnglish, on the record found
ApplyEnglish(item, res) ==
    LET \* the key the modifier group is written to (none when both are empty)
        KeyOf(f) == IF f # MODGROUP THEN f
                    ELSE IF Truthy(Get(item, MODGROUP)) THEN MODGROUP
                    ELSE IF Truthy(Get(item, GNAME)) THEN GNAME ELSE UNDEF
        RECURSIVE Write(_, _)
        Write(it, j) ==
            IF j > Len(TR_FIELDS) THEN it
            ELSE LET f == TR_FIELDS[j]
                     main == MainOf(item, f)
                     comp == CompanionOf(item, f)
                     hit == BoolOr(hasArabicText(main), hasArabicText(comp)) /\ Truthy(res.texts[j])
                     kept == IF hit /\ hasArabicText(main) /\ ~Truthy(comp) /\ KeyOf(f) # UNDEF
                             THEN Put(it, Ar(KeyOf(f)), main) ELSE it
                 IN  Write(IF hit /\ KeyOf(f) # UNDEF THEN Put(kept, KeyOf(f), res.texts[j]) ELSE kept,
                           j + 1)
    IN  Write(item, 1)

\* results.forEach over one parsed response: the data afterwards and the number
\* of entries that found a record. (Neither direction writes an id, so the
\* record an entry finds does not depend on the entries before it.)
ApplyResults(data, results, dir) ==
    LET ids == Column(data, ID)
        modifierIds == Column(data, MID)
        index == SubSeq([k \in DOMAIN results |-> ResultIndex(ids, modifierIds, dir, results[k].id)],
                        1, Len(results))
        RECURSIVE Each(_, _, _)
        Each(it, ks, n) ==
            IF n > Len(ks) THEN it
            ELSE Each(IF dir = "ar" THEN ApplyArabic(it, results[ks[n]])
                      ELSE ApplyEnglish(it, results[ks[n]]), ks, n + 1)
    IN  [data |-> SubSeq([j \in DOMAIN data |->
                      LET ks == SelectSeq([k \in DOMAIN results |-> k], LAMBDA k : index[k] = j - 1)
                      IN  IF ks = <<>> THEN data[j] ELSE Each(data[j], ks, 1)], 1, Len(data)),
         matched |-> Cardinality({k \in DOMAIN results : index[k] # -1})]

\* The Translation Oracle: what it answers to a request. The id comes back as a
\* string (responseSchema: id is Type.STRING): a number as its digits, an absent
\* id as "". "ok" translates what was sent, "eager" fills every field, "blank"
\* fills none.
OracleModes == {"ok", "eager", "blank"}

OracleText(dir, text) ==
    IF dir = "ar" THEN <<"AR_tr">> \o text
    ELSE <<"EN_tr">> \o SelectSeq(text, LAMBDA t : t \notin ArabicWords)

OracleId(id) ==
    IF id = UNDEF THEN EMPTY
    ELSE IF id # <<>> /\ Head(id) = "#" THEN Tail(id) ELSE id

Oracle(mode, dir, request) ==
    SubSeq([e \in DOMAIN request |->
        [id |-> OracleId(request[e].id),
         texts |-> [j \in DOMAIN TR_FIELDS |->
                       IF mode = "blank" THEN EMPTY
                       ELSE IF mode = "ok" /\ request[e].texts[j] = EMPTY THEN EMPTY
                       ELSE OracleText(dir, request[e].texts[j])]]], 1, Len(request))

\* The records the datasets are built from
TrRecords ==
    << \* an English item
       << Cell(ID, <<"1">>), Cell(NAME, <<"Burger">>), Cell(DESC, <<"grilled">>) >>,
       \* an item with an Arabic name and an English description
       << Cell(ID, <<"2">>), Cell(NAME, <<"AR_burger">>), Cell(DESC, <<"grilled">>) >>,
       \* a modifier that already has its Arabic name, its description untranslated
       << Cell(ID, <<"3">>), Cell(MODNAME, <<"Large">>), Cell(Ar(MODNAME), <<"AR_large">>),
          Cell(DESC, <<"AR_desc">>), Cell(BRAND, <<"Acme">>) >>,
       \* an item whose id a later record carries too
       << Cell(ID, <<"f", "3", "0">>), Cell(NAME, <<"Cola">>), Cell(DESC, <<"AR_grilled">>) >>,
       \* a fully bilingual item
       << Cell(ID, <<"5">>), Cell(NAME, <<"Soup">>), Cell(Ar(NAME), <<"AR_small">>) >>,
       \* two records of a modifier export (no Menu Item Id)
       << Cell(GID, <<"g1">>), Cell(GNAME, <<"Sizes">>), Cell(MID, <<"m1">>), Cell(MODNAME, <<"Large">>) >>,
       << Cell(GID, EMPTY), Cell(GNAME, <<"AR_sizes">>), Cell(MID, <<"m2">>), Cell(MODNAME, <<"Small">>) >>,
       \* an item whose id cell holds a number
       << Cell(ID, <<"#", "7">>), Cell(NAME, <<"Tea">>), Cell(DESC, <<"AR_desc">>) >> >>

\* the n-th filler record (counted from 1)
Filler(n) == << Cell(ID, <<"f">> \o NatStr(n)), Cell(NAME, <<"Item">>), Cell(DESC, <<"AR_desc">>) >>

\* A dataset: up to MaxPrefix hand-picked records; or the record that shares its
\* id with a filler record, followed by the filler records of 1..MaxFill batches
\* (one record more than fills the batches)
TrDatasets ==
    LET picked(n) == {[j \in 1..n |-> TrRecords[c[j]]] : c \in [1..n -> DOMAIN TrRecords]}
    IN  UNION {picked(n) : n \in 0..MaxPrefix}
        \cup {<<TrRecords[4]>> \o [j \in 1..(k * batchSize) |-> Filler(j)] : k \in 1..MaxFill}

TrInit ==
    /\ tDir \in {"ar", "en"}
    /\ tInput \in TrDatasets
    /\ tData = tInput
    /\ tBatches = <<>>
    /\ tNext = 0
    /\ tInflight = {}
    /\ tAtLaunch = <<>>
    /\ tRequests = <<>>
    /\ tApplied = <<>>
    /\ tFailed = {}
    /\ tCount = 0
    /\ tProgress = 0
    /\ tPc = "start"

TrIdle ==
    /\ tDir = "ar"
    /\ tInput = <<>>
    /\ tData = <<>>
    /\ tBatches = <<>>
    /\ tNext = 0
    /\ tInflight = {}
    /\ tAtLaunch = <<>>
    /\ tRequests = <<>>
    /\ tApplied = <<>>
    /\ tFailed = {}
    /\ tCount = 0
    /\ tProgress = 0
    /\ tPc = "idle"

\* the code up to the pool loop: the first pass (ensure-Arabic only), the filter,
\* the early return, the batches
TrPrepare ==
    /\ tPc = "start"
    /\ LET passed == IF tDir = "ar" THEN [j \in DOMAIN tData |-> FirstPass(tData[j])] ELSE tData
           already == IF tDir = "ar"
                      THEN Cardinality({j \in DOMAIN tData :
                               LET name == StringOf(tData[j], NAME)
                               IN  Truthy(name) /\ hasArabicText(name) /\ ~Truthy(Get(tData[j], Ar(NAME)))})
                      ELSE 0
           items == Selected(passed, tDir)
       IN  /\ tData' = passed
           /\ tCount' = already
           /\ tBatches' = MakeBatches(items)
           /\ tPc' = IF Len(items) = 0 THEN "done" ELSE "pool"
    /\ UNCHANGED <<tDir, tInput, tNext, tInflight, tAtLaunch, tRequests, tApplied, tFailed, tProgress>>
    /\ UNCHANGED <<menuVars, orderVars, modVars, runVars, syncVars, normVars>>

\* one turn of the pool loop up to its await: processBatch is called for the
\* next `concurrency` batches, each builds its translationList and sends it
TrLaunchGroup ==
    /\ tPc = "pool" /\ tInflight = {} /\ tNext < Len(tBatches)
    /\ LET last == IF tNext + concurrency < Len(tBatches) THEN tNext + concurrency ELSE Len(tBatches)
           group == tNext .. (last - 1)
       IN  /\ tInflight' = group
           /\ tRequests' = tRequests \o
                  [b \in 1..(last - tNext) |->
                      [batch |-> tNext + b - 1,
                       list |-> [e \in DOMAIN tBatches[tNext + b] |->
                                    LET item == tData[tBatches[tNext + b][e] + 1]
                                    IN  IF tDir = "ar" THEN ArabicRequest(item) ELSE EnglishRequest(item)]]]
    /\ tAtLaunch' = tData
    /\ tNext' = tNext + concurrency
    /\ UNCHANGED <<tDir, tInput, tData, tBatches, tApplied, tFailed, tCount, tProgress, tPc>>
    /\ UNCHANGED <<menuVars, orderVars, modVars, runVars, syncVars, normVars>>

\* a defective progress callback: the reported value is shown as it comes
ShownProgressRaw(prev, current) == current

\* `setProcessingProgress(prev => ({ current: Math.max(prev.current, current), total }))`
ShownProgress(prev, current) == IF prev > current THEN prev ELSE current

\* the request of batch b resolves with a parseable body: the results are
\* applied and progress is reported to the component, which keeps the maximum
TrBatchResolves ==
    \E b \in tInflight, mode \in OracleModes :
        LET request == (CHOOSE r \in Range(tRequests) : r.batch = b).list
            applied == ApplyResults(tData, Oracle(mode, tDir, request), tDir)
            current == (b + 1) * batchSize
        IN  /\ tData' = applied.data
            /\ tCount' = tCount + applied.matched
            /\ tApplied' = Append(tApplied, [batch |-> b,
                               changed |-> {j \in DOMAIN tData : applied.data[j] # tData[j]},
                               filled |-> mode # "blank"])
            /\ tProgress' = ShownProgress(tProgress, current)
            /\ tInflight' = tInflight \ {b}
            /\ UNCHANGED <<tDir, tInput, tBatches, tNext, tAtLaunch, tRequests, tFailed, tPc>>
            /\ UNCHANGED <<menuVars, orderVars, modVars, runVars, syncVars, normVars>>

\* the request of batch b throws, or its body does not parse: the catch logs it
TrBatchFails ==
    \E b \in tInflight :
        /\ tFailed' = tFailed \cup {b}
        /\ tInflight' = tInflight \ {b}
        /\ UNCHANGED <<tDir, tInput, tData, tBatches, tNext, tAtLaunch, tRequests, tApplied,
                       tCount, tProgress, tPc>>
        /\ UNCHANGED <<menuVars, orderVars, modVars, runVars, syncVars, normVars>>

\* the pool loop is over: return { data: translatedData, count: totalTranslated }
TrReturn ==
    /\ tPc = "pool" /\ tInflight = {} /\ tNext >= Len(tBatches)
    /\ tPc' = "done"
    /\ UNCHANGED <<tDir, tInput, tData, tBatches, tNext, tInflight, tAtLaunch, tRequests,
                   tApplied, tFailed, tCount, tProgress>>
    /\ UNCHANGED <<menuVars, orderVars, modVars, runVars, syncVars, normVars>>

----------------------------------------------------------------------------
(* runTransformation and the export of its result                          *)

\* Most raw rows of an orchestrated run.
MaxRunRows == 2

\* `[...data].sort((a, b) => bVal - aVal)`: records with an Image URL first, the
\* order within each kind kept (Array.prototype.sort is stable)
sortDataByVisuals(data) ==
    SelectSeq(data, LAMBDA item : Truthy(Get(item, IMAGE)))
        \o SelectSeq(data, LAMBDA item : ~Truthy(Get(item, IMAGE)))

\* the header row json_to_sheet derives from the sanitized records: their keys
\* in order of first appearance, _imageSource removed
SheetHeader(data) ==
    LET RECURSIVE Rows(_, _)
        Rows(j, out) ==
            IF j > Len(data) THEN out
            ELSE Rows(j + 1, AppendRemaining(Keys(Del(data[j], IMAGE_SOURCE)), 1, out))
    IN  Rows(1, <<>>)

RunInit ==
    /\ rMode \in {"menu", "modifier"}
    /\ rOpts \in [autoTranslateArToEn : BOOLEAN, autoTranslate : BOOLEAN]
    /\ rPc = "transform"
    /\ rData = <<>>
    /\ rColumns = <<>>
    /\ rExport = <<>>

RunIdle ==
    /\ rMode = "menu"
    /\ rOpts = [autoTranslateArToEn |-> FALSE, autoTranslate |-> FALSE]
    /\ rPc = "idle"
    /\ rData = <<>>
    /\ rColumns = <<>>
    /\ rExport = <<>>

\* what the transformation of the run's mode returned
Transformed == IF rMode = "menu" THEN result.data ELSE mResult.data

\* the transformation has returned: its records become the local data; a run
\* that identified no record in a non-empty file ends with an error
RunTakeResult ==
    /\ rPc = "transform"
    /\ IF rMode = "menu" THEN pc = "done" ELSE mPc = "done"
    /\ rData' = Transformed
    /\ rPc' = IF Len(Transformed) = 0 /\ Len(IF rMode = "menu" THEN rawData ELSE mRawData) > 0
              THEN "error" ELSE "english"
    /\ UNCHANGED <<rMode, rOpts, rColumns, rExport>>
    /\ UNCHANGED <<menuVars, orderVars, modVars, trVars, syncVars, normVars>>

\* `if (options.autoTranslateArToEn)` and `if (options.autoTranslate)`: the phase
\* is entered (progress reset, the translation function called) or passed over
RunBeginPhase ==
    /\ rPc \in {"english", "arabic"}
    /\ IF (IF rPc = "english" THEN rOpts.autoTranslateArToEn ELSE rOpts.autoTranslate)
       THEN /\ tDir' = (IF rPc = "english" THEN "en" ELSE "ar")
            /\ tInput' = rData
            /\ tData' = rData
            /\ tBatches' = <<>>
            /\ tNext' = 0
            /\ tInflight' = {}
            /\ tAtLaunch' = <<>>
            /\ tRequests' = <<>>
            /\ tApplied' = <<>>
            /\ tFailed' = {}
            /\ tCount' = 0
            /\ tProgress' = 0
            /\ tPc' = "start"
            /\ rPc' = (IF rPc = "english" THEN "englishRunning" ELSE "arabicRunning")
       ELSE /\ UNCHANGED trVars
            /\ rPc' = (IF rPc = "english" THEN "arabic" ELSE "show")
    /\ UNCHANGED <<rMode, rOpts, rData, rColumns, rExport>>
    /\ UNCHANGED <<menuVars, orderVars, modVars, syncVars, normVars>>

\* the translation function has returned: `data = res.data`, progress reset
RunEndPhase ==
    /\ rPc \in {"englishRunning", "arabicRunning"}
    /\ tPc = "done"
    /\ rData' = tData
    /\ tProgress' = 0
    /\ rPc' = IF rPc = "englishRunning" THEN "arabic" ELSE "show"
    /\ UNCHANGED <<rMode, rOpts, rColumns, rExport>>
    /\ UNCHANGED <<tDir, tInput, tData, tBatches, tNext, tInflight, tAtLaunch, tRequests,
                   tApplied, tFailed, tCount, tPc>>
    /\ UNCHANGED <<menuVars, orderVars, modVars, syncVars, normVars>>

\* setTransformedData(...); in modifier mode setModifierOutputColumns(outputColumns)
\* with the columns transformModifierData returned
RunShow ==
    /\ rPc = "show"
    /\ rData' = IF rMode = "menu" THEN sortDataByVisuals(rData) ELSE rData
    /\ rColumns' = IF rMode = "menu" THEN rColumns ELSE mResult.outputColumns
    /\ rPc' = "shown"
    /\ UNCHANGED <<rMode, rOpts, rExport>>
    /\ UNCHANGED <<menuVars, orderVars, modVars, trVars, syncVars, normVars>>

\* "Standard Excel": downloadExcel(transformedData) in menu mode,
\* downloadModifierExcel(transformedData, name, modifierOutputColumns) in modifier mode
RunExport ==
    /\ rPc = "shown"
    /\ rExport' = IF rMode = "menu" THEN SheetHeader(rData) ELSE rColumns
    /\ rPc' = "exported"
    /\ UNCHANGED <<rMode, rOpts, rData, rColumns>>
    /\ UNCHANGED <<menuVars, orderVars, modVars, trVars, syncVars, normVars>>

----------------------------------------------------------------------------
(* processImageSync and executeSync                                        *)

\* Most records of an image synchronisation.
MaxSyncItems == 3

\* what a generation call can answer: an image, a body without image data, an
\* error, the rate-limit error (status 429)
Answers == {"image", "empty", "error", "429"}

SyncDatasets == UNION {[1..n -> [http : BOOLEAN, inDb : BOOLEAN]] : n \in 0..MaxSyncItems}

SyncInit ==
    /\ sFn \in {"processImageSync", "executeSync"}
    /\ sItems \in SyncDatasets
    /\ sData = [j \in DOMAIN sItems |->
                   [url |-> IF sItems[j].http THEN "http" ELSE "", imageSource |-> "none"]]
    /\ sI = 0
    /\ generatedCount = 0
    /\ dbCount = 0
    /\ sCalls = <<>>
    /\ sPc = "loop"

SyncIdle ==
    /\ sFn = "processImageSync"
    /\ sItems = <<>>
    /\ sData = <<>>
    /\ sI = 0
    /\ generatedCount = 0
    /\ dbCount = 0
    /\ sCalls = <<>>
    /\ sPc = "idle"

SyncLooping == sPc = "loop" /\ sI < Len(sItems)

\* processImageSync only: the record already has an http Image URL
SkipsExcel == sFn = "processImageSync" /\ sItems[sI + 1].http

\* processImageSync: `item._imageSource = 'excel'; continue`
SyncSkipExcel ==
    /\ SyncLooping /\ SkipsExcel
    /\ sData' = [sData EXCEPT ![sI + 1].imageSource = "excel"]
    /\ sI' = sI + 1
    /\ UNCHANGED <<sFn, sItems, generatedCount, dbCount, sCalls, sPc>>
    /\ UNCHANGED <<menuVars, orderVars, modVars, trVars, runVars, normVars>>

\* the record is matched in the asset database: its image is assigned
SyncFromDatabase ==
    /\ SyncLooping /\ ~SkipsExcel /\ sItems[sI + 1].inDb
    /\ sData' = [sData EXCEPT ![sI + 1] = [url |-> "database", imageSource |-> "database"]]
    /\ dbCount' = dbCount + 1
    /\ sI' = sI + 1
    /\ UNCHANGED <<sFn, sItems, generatedCount, sCalls, sPc>>
    /\ UNCHANGED <<menuVars, orderVars, modVars, trVars, runVars, normVars>>

\* what the loop does with the answer of the generation call for record sI
AfterAnswer(answer) ==
    IF answer = "image"
    THEN [sData EXCEPT ![sI + 1] = [url |-> "generated", imageSource |-> "generated"]]
    ELSE IF sFn = "processImageSync" THEN [sData EXCEPT ![sI + 1].imageSource = "none"]
    ELSE sData

\* does the loop stop after this answer: `if (error?.status === 429) break` in
\* processImageSync; the catch of executeSync only logs
StopsAfter(answer) == sFn = "processImageSync" /\ answer = "429"

\* no match: a generation call is started and answered
SyncGenerate ==
    \E answer \in Answers :
        /\ SyncLooping /\ ~SkipsExcel /\ ~sItems[sI + 1].inDb
        /\ sCalls' = Append(sCalls, [item |-> sI, answer |-> answer])
        /\ sData' = AfterAnswer(answer)
        /\ generatedCount' = IF answer = "image" THEN generatedCount + 1 ELSE generatedCount
        /\ sPc' = IF StopsAfter(answer) THEN "done" ELSE sPc
        /\ sI' = IF StopsAfter(answer) THEN sI ELSE sI + 1
        /\ UNCHANGED <<sFn, sItems, dbCount>>
        /\ UNCHANGED <<menuVars, orderVars, modVars, trVars, runVars, normVars>>

\* the loop is over
SyncFinish ==
    /\ sPc = "loop" /\ sI = Len(sItems)
    /\ sPc' = "done"
    /\ UNCHANGED <<sFn, sItems, sData, sI, generatedCount, dbCount, sCalls>>
    /\ UNCHANGED <<menuVars, orderVars, modVars, trVars, runVars, normVars>>

----------------------------------------------------------------------------
(* normalizeRow, one key at a time                                         *)

\* Most columns of a raw row handed to normalizeRow.
MaxHeaders == 2

\* the header bases and language tags the raw headers are built from
HeaderBases == {<<"Name">>, <<"NAME">>, <<"Description">>, <<"Foo">>}
LanguageTags == {"(AR)", "(ar)", "(EN)", "(AR-AE)", "[AR]", "[EN]", "[ar-ae]", "[AR-AE]"}

\* raw headers: a base alone, or a base, an optional space and a language tag
RawHeaders ==
    HeaderBases \cup {b \o sep \o <<t>> : b \in HeaderBases, sep \in {<<>>, <<SP>>}, t \in LanguageTags}

\* does the key match langMatch or bracketMatch
HasLanguage(key) ==
    LET cleanKey == Trim(LowerS(key))
    IN  Len(cleanKey) >= 2 /\ Last(cleanKey) \in (ParenLang \cup BracketLang)

NormInit ==
    /\ nRow \in UNION {{[j \in 1..n |-> Cell(h[j], <<"v", NatStr(j)[1]>>)] : h \in [1..n -> RawHeaders]}
                        : n \in 0..MaxHeaders}
    /\ nJ = 0
    /\ nOut = <<>>
    /\ nPc = "loop"

NormIdle ==
    /\ nRow = <<>>
    /\ nJ = 0
    /\ nOut = <<>>
    /\ nPc = "idle"

\* the callback of forEach on a key with a language tag (either format)
NormLanguageKey ==
    /\ nPc = "loop" /\ nJ < Len(nRow) /\ HasLanguage(nRow[nJ + 1].k)
    /\ nOut' = Put(nOut, NormalizeKey(nRow[nJ + 1].k), nRow[nJ + 1].v)
    /\ nJ' = nJ + 1
    /\ UNCHANGED <<nRow, nPc>>
    /\ UNCHANGED <<menuVars, orderVars, modVars, trVars, runVars, syncVars>>

\* the callback of forEach on any other key: the standard mapping
NormStandardKey ==
    /\ nPc = "loop" /\ nJ < Len(nRow) /\ ~HasLanguage(nRow[nJ + 1].k)
    /\ nOut' = Put(nOut, NormalizeKey(nRow[nJ + 1].k), nRow[nJ + 1].v)
    /\ nJ' = nJ + 1
    /\ UNCHANGED <<nRow, nPc>>
    /\ UNCHANGED <<menuVars, orderVars, modVars, trVars, runVars, syncVars>>

\* `return normalized`
NormReturn ==
    /\ nPc = "loop" /\ nJ = Len(nRow)
    /\ nPc' = "done"
    /\ UNCHANGED <<nRow, nJ, nOut>>
    /\ UNCHANGED <<menuVars, orderVars, modVars, trVars, runVars, syncVars>>

----------------------------------------------------------------------------
(* Specifications                                                          *)

\* transformMenuData on every dataset and option set
Init == MenuInit /\ OrderIdle /\ ModIdle /\ TrIdle /\ RunIdle /\ SyncIdle /\ NormIdle

Next ==
    \/ ReturnEmpty
    \/ MergeTranslation
    \/ OrphanTranslation
    \/ CreatePrimary
    \/ SkipRow
    \/ BuildOutput

Spec == Init /\ [][Next]_vars

\* orderColumnsCorrectly, applied once and then to its own result
InitOrder == OrderInit /\ MenuIdle /\ ModIdle /\ TrIdle /\ RunIdle /\ SyncIdle /\ NormIdle

NextOrder ==
    \/ OrderOnce
    \/ OrderTwice

SpecOrder == InitOrder /\ [][NextOrder]_vars

\* transformModifierData on every modifier export
InitModifier == ModInit /\ MenuIdle /\ OrderIdle /\ TrIdle /\ RunIdle /\ SyncIdle /\ NormIdle

NextModifier ==
    \/ ModReturnEmpty
    \/ ModTranslationRow
    \/ ModGroupRow
    \/ ModModifierRow
    \/ ModSkipRow
    \/ ModFinish

SpecModifier == InitModifier /\ [][NextModifier]_vars

\* one translation run, in either direction, under every order of completion
InitTranslate == TrInit /\ MenuIdle /\ OrderIdle /\ ModIdle /\ RunIdle /\ SyncIdle /\ NormIdle

NextTranslate ==
    \/ TrPrepare
    \/ TrLaunchGroup
    \/ TrBatchResolves
    \/ TrBatchFails
    \/ TrReturn

SpecTranslate == InitTranslate /\ [][NextTranslate]_vars

\* an orchestrated run in menu or modifier mode, with the transformation options
\* at their defaults, and the export of its result
InitRun ==
    /\ RunInit /\ OrderIdle /\ TrIdle /\ SyncIdle /\ NormIdle
    /\ \/ rMode = "menu" /\ MenuInit /\ Len(rawData) <= MaxRunRows /\ ModIdle
          /\ options = [extractArabic |-> TRUE, splitPrice |-> TRUE, applyTitleCase |-> TRUE]
       \/ rMode = "modifier" /\ ModInit /\ Len(mRawData) <= MaxRunRows /\ MenuIdle

NextRun ==
    \/ ReturnEmpty
    \/ MergeTranslation
    \/ OrphanTranslation
    \/ CreatePrimary
    \/ SkipRow
    \/ BuildOutput
    \/ ModReturnEmpty
    \/ ModTranslationRow
    \/ ModGroupRow
    \/ ModModifierRow
    \/ ModSkipRow
    \/ ModFinish
    \/ RunTakeResult
    \/ RunBeginPhase
    \/ TrPrepare
    \/ TrLaunchGroup
    \/ TrBatchResolves
    \/ TrBatchFails
    \/ TrReturn
    \/ RunEndPhase
    \/ RunShow
    \/ RunExport

SpecRun == InitRun /\ [][NextRun]_vars

\* an image synchronisation by either loop
InitSync == SyncInit /\ MenuIdle /\ OrderIdle /\ ModIdle /\ TrIdle /\ RunIdle /\ NormIdle

NextSync ==
    \/ SyncSkipExcel
    \/ SyncFromDatabase
    \/ SyncGenerate
    \/ SyncFinish

SpecSync == InitSync /\ [][NextSync]_vars

\* normalizeRow on every raw row of language-tagged and plain headers
InitNormalize == NormInit /\ MenuIdle /\ OrderIdle /\ ModIdle /\ TrIdle /\ RunIdle /\ SyncIdle

NextNormalize ==
    \/ NormLanguageKey
    \/ NormStandardKey
    \/ NormReturn

SpecNormalize == InitNormalize /\ [][NextNormalize]_vars

----------------------------------------------------------------------------
(* Properties of transformMenuData                                         *)

Done == pc = "done"

\* every [ar-ae] companion sits immediately after its base column
Paired(cols) ==
    \A a, b \in DOMAIN cols : cols[b] = cols[a] \o <<SUFFIX>> => b = a + 1

\* a translation continuation row: empty id, name starting with the marker
ContinuationRow(raw) ==
    LET row == normalizeRow(raw)
    IN  ~Truthy(Get(row, ID)) /\ StartsWith(ItemNameOf(row), MARK)

\* C1: in the column list of every dataset transformMenuData returns, an
\* Arabic companion column that is present immediately follows its base column.
C1_CompanionFollowsBase ==
    Done => \A j \in DOMAIN result.data : Paired(Keys(result.data[j]))

\* C2: every column seen on a row that became a record (the raw Price apart)
\* is a column of the returned records, also when the first row lacks it.
C2_ColumnUnion ==
    Done => \A j \in DOMAIN result.data : \A r \in DOMAIN origin :
                \A col \in Range(Keys(normalizeRow(RawRow(origin[r])))) :
                    col # PRICE => Has(result.data[j], col)

FirstRowOrphanHandled ==
    LET name == ItemNameOf(normalizeRow(RawRow(0)))
        expected == [kind |-> "orphan", row |-> 2, value |-> name]
    IN  /\ Len(SelectSeq(anomalies, LAMBDA a : a.kind = "orphan" /\ a.row = 2)) = 1
        /\ anomalies[1] = expected
        /\ ~Includes(origin, 0)
        /\ Done => /\ i = Len(rawData)
                   /\ result.stats.anomalies = anomalies
                   /\ Len(result.data) = Len(origin)

\* C6 (as claimed): when the first row is a translation continuation row,
\* exactly one orphan anomaly names display row 2 and the raw value, no record
\* comes from that row, and the remaining rows are processed.
C6_OrphanFirstRow_Original ==
    (rawData # <<>> /\ i >= 1 /\ ContinuationRow(RawRow(0))) => FirstRowOrphanHandled

\* C6 (amended): the same, when the extractArabic option is enabled.
C6_OrphanFirstRow ==
    (rawData # <<>> /\ i >= 1 /\ options.extractArabic /\ ContinuationRow(RawRow(0)))
        => FirstRowOrphanHandled

\* a first-row orphan was reported and a later row became a record
C6_Witness ==
    /\ Done /\ options.extractArabic /\ Len(rawData) >= 2
    /\ ContinuationRow(RawRow(0))
    /\ Len(result.stats.anomalies) = 1
    /\ Len(result.data) >= 1

\* the effect C7 claims for the step that processes a continuation row
\* directly after the row that became the current record
ContinuationMerged ==
    LET row == normalizeRow(RawRow(i))
        cur == Len(transformedData)
        name == Trim(ReplaceFirst(ItemNameOf(row), MARK))
        desc == Or(Get(row, DESC), EMPTY)
    IN  /\ Len(transformedData') = cur
        /\ \E f \in {NAME, MODNAME, MODGROUP} : Get(transformedData'[cur], Ar(f)) = name
        /\ StartsWith(desc, MARK) =>
               Get(transformedData'[cur], Ar(DESC)) = Trim(ReplaceFirst(desc, MARK))
        /\ \A j \in 1..(cur - 1) : transformedData'[j] = transformedData[j]
        /\ anomalies' = anomalies
        /\ arabicCount' = arabicCount + 1

FollowsPrimary ==
    /\ pc = "loop" /\ rawData # <<>> /\ i >= 1 /\ i < Len(rawData) /\ i' = i + 1
    /\ origin # <<>> /\ Last(origin) = i - 1
    /\ ContinuationRow(RawRow(i))

\* the scenario primary row + continuation row
TwoRowScenario ==
    /\ Done /\ Len(rawData) = 2
    /\ ~ContinuationRow(RawRow(0)) /\ Truthy(ItemNameOf(normalizeRow(RawRow(0))))
    /\ ContinuationRow(RawRow(1))

TwoRowResult ==
    LET row == normalizeRow(RawRow(1))
    IN  /\ Len(result.data) = 1
        /\ result.stats.arabicTranslationsFound = 1
        /\ result.stats.anomalies = <<>>
        /\ \E f \in {NAME, MODNAME, MODGROUP} :
               Get(result.data[1], Ar(f)) = Trim(ReplaceFirst(ItemNameOf(row), MARK))

ExplicitIdsDistinct ==
    \A a, b \in DOMAIN rawData :
        LET ida == Get(normalizeRow(RawRow(a - 1)), ID)
            idb == Get(normalizeRow(RawRow(b - 1)), ID)
        IN  (a # b /\ Truthy(ida) /\ Truthy(idb)) => ida # idb

\* C8: the ItemIds of the returned records are pairwise distinct (stated for
\* inputs whose explicit ids are distinct, and for the records carrying an id).
C8_UniqueItemIds ==
    (Done /\ ExplicitIdsDistinct) =>
        \A a, b \in DOMAIN result.data :
            (a # b /\ Has(result.data[a], ID) /\ Has(result.data[b], ID))
                => Get(result.data[a], ID) # Get(result.data[b], ID)

\* every row lacks an id, has a name and is no continuation row
AllRowsLackId ==
    \A a \in DOMAIN rawData :
        LET row == normalizeRow(RawRow(a - 1))
        IN  ~Truthy(Get(row, ID)) /\ Truthy(ItemNameOf(row)) /\ ~StartsWith(ItemNameOf(row), MARK)

\* C9: N rows without id yield N records with the ids auto-gen-0 .. auto-gen-(N-1)
\* in input order.
C9_AutoGeneratedIds ==
    (Done /\ AllRowsLackId) =>
        /\ Len(result.data) = Len(rawData)
        /\ \A j \in DOMAIN result.data : Get(result.data[j], ID) = <<"auto-gen-">> \o NatStr(j - 1)

\* C10: no raw Price field survives: it is no key of a returned record and no
\* entry of the output column list.
C10_NoRawPrice ==
    Done => /\ ~Includes(outputColumns, PRICE)
            /\ \A j \in DOMAIN result.data : ~Has(result.data[j], PRICE)

----------------------------------------------------------------------------
(* Properties of orderColumnsCorrectly                                     *)

\* C3: every row orderColumnsCorrectly returns has exactly the full ordered
\* column list as its keys (a column absent on the input row is present, with "").
C3_RowsCarryAllColumns ==
    oPc \in {"once", "twice"} =>
        \A r \in DOMAIN oOnce :
            /\ Keys(oOnce[r]) = OrderedColumns(oData)
            /\ \A col \in Range(OrderedColumns(oData)) :
                   ~Has(oData[r], col) => Get(oOnce[r], col) = EMPTY

\* C4: ordering the ordered dataset again changes nothing: the rows come back
\* with the same columns in the same order and the same values.
C4_OrderingIdempotent ==
    oPc = "twice" => oTwice = oOnce

\* no two suffixed columns of the dataset reduce to the same base name
NoCompanionCollision(data) ==
    \A r1, r2 \in DOMAIN data : \A c1 \in Range(Keys(data[r1])) : \A c2 \in Range(Keys(data[r2])) :
        (IsArabicCol(c1) /\ IsArabicCol(c2) /\ BaseOf(c1) = BaseOf(c2)) => c1 = c2

\* C4, restricted: ordering is idempotent on datasets without such a collision.
C4_IdempotentWithoutCollision ==
    (oPc = "twice" /\ NoCompanionCollision(oData)) =>
        /\ OrderedColumns(oOnce) = OrderedColumns(oData)
        /\ oTwice = oOnce

----------------------------------------------------------------------------
(* Properties of transformModifierData                                     *)

ModDone == mPc = "done"

\* a translation continuation row of a modifier export: both ids empty, a
\* name starting with the [ar-ae]: marker
ModContinuationRow(raw) ==
    /\ ~Truthy(Get(raw, GID)) /\ ~Truthy(Get(raw, MID))
    /\ BoolOr(StartsWith(StringOf(raw, GNAME), MARK), StartsWith(StringOf(raw, MODNAME), MARK))

\* the rows of the input that are no continuation rows
ModPrimaryRows == {r \in DOMAIN mRawData : ~ModContinuationRow(ModRawRow(r - 1))}

\* the accumulator behind the j-th returned record was seeded by a row
\* carrying a group id or a modifier id
SeededByPrimary(j) ==
    BoolOr(Truthy(Get(outputRows[j], GID)), Truthy(Get(outputRows[j], MID)))

\* C5: no record returned by transformModifierData originates from a
\* translation continuation row: every record was seeded by a row carrying an
\* id, so there are at most as many records as rows that are no continuation rows.
C5_NoRecordFromContinuation ==
    ModDone =>
        /\ Len(mResult.data) <= Cardinality(ModPrimaryRows)
        /\ \A j \in DOMAIN mResult.data : SeededByPrimary(j)

\* C1, for transformModifierData: in the column list it returns, an Arabic
\* companion column that is present immediately follows its base column.
C1_CompanionFollowsBase_Modifier ==
    ModDone => Paired(mResult.outputColumns)

----------------------------------------------------------------------------
(* Properties of the translation runs                                      *)

TrDone == tPc = "done"

\* field f of input record j holds Arabic text and its companion is empty
ArabicSource(j, f) ==
    hasArabicText(StringOf(tInput[j], f)) /\ ~Truthy(Get(tInput[j], Ar(f)))

\* the first pass leaves the source text, verbatim, in the companion
CopiedVerbatim ==
    \A j \in DOMAIN tInput : \A f \in Range(TR_FIELDS) :
        ArabicSource(j, f) => Get(tData'[j], Ar(f)) = StringOf(tInput[j], f)

\* no request carries Arabic text, and the entry of a record is empty in each
\* field whose source is Arabic
ArabicNeverSent ==
    \A r \in Range(tRequests) : \A e \in DOMAIN r.list :
        LET j == tBatches[r.batch + 1][e] + 1
        IN  \A k \in DOMAIN TR_FIELDS :
                /\ ~hasArabicText(r.list[e].texts[k])
                /\ ArabicSource(j, TR_FIELDS[k]) => r.list[e].texts[k] = EMPTY

C12_CompanionsKept ==
    tDir = "ar" =>
        \A j \in DOMAIN tInput : \A f \in Range(TR_FIELDS) :
            Truthy(Get(tInput[j], Ar(f))) => Get(tData[j], Ar(f)) = Get(tInput[j], Ar(f))

\* the records (1-based positions in the data) submitted in batch b (0-based)
Submitted(b) == {tBatches[b + 1][e] + 1 : e \in DOMAIN tBatches[b + 1]}

\* the batches of the group launched last
LastGroup == {b \in 0..(Len(tBatches) - 1) : tNext - concurrency <= b /\ b < tNext}

\* C13: when batch calls fail the run still returns: the records of a failed
\* batch keep the values they had before the call, and every other batch is
\* submitted and its results are applied.
C13_FailedBatchesKept ==
    /\ \A b \in tFailed \cap LastGroup : \A j \in Submitted(b) : tData[j] = tAtLaunch[j]
    /\ TrDone => \A b \in 0..(Len(tBatches) - 1) :
                     b \in tFailed \/ \E a \in Range(tApplied) : a.batch = b

\* the batches one after the other
Concat(batches) ==
    LET RECURSIVE Join(_)
        Join(n) == IF n = 0 THEN <<>> ELSE Join(n - 1) \o batches[n]
    IN  Join(Len(batches))

\* C14: at most `concurrency` (3) batch requests are outstanding at any moment,
\* every batch holds at most `batchSize` (25) records, and the batches, one after
\* the other, are exactly the selected records (each in one batch, once).
C14_BoundedPool ==
    /\ [](Cardinality(tInflight) <= concurrency)
    /\ [](\A b \in DOMAIN tBatches : Len(tBatches[b]) <= batchSize)
    /\ [][tPc = "start" => Concat(tBatches') = Selected(tData', tDir)]_vars

\* four batches, three of them outstanding, the fourth waiting
C14_Witness ==
    /\ Len(tBatches) = 4 /\ Cardinality(tInflight) = concurrency /\ tNext = concurrency
    /\ Len(tBatches[1]) = batchSize /\ Len(tBatches[4]) = 1

\* C15: the records modified while the response of one batch is applied are
\* records submitted in that batch, and no record is written by two batches.
C15_WritesWithinBatch ==
    /\ \A a \in Range(tApplied) : a.changed \subseteq Submitted(a.batch)
    /\ \A a1, a2 \in Range(tApplied) : a1.batch # a2.batch => a1.changed \cap a2.changed = {}

\* C16: within one phase the progress value the component shows never decreases.
C16_ProgressMonotone == [][tProgress' >= tProgress]_vars

\* batch 1 reported 50 before batch 0 reported 25, and 50 is still shown
C16_Witness ==
    /\ Len(tApplied) = 2 /\ tApplied[1].batch = 1 /\ tApplied[2].batch = 0
    /\ tProgress = 2 * batchSize

\* the key field f of a record is written to by translateArabicToEnglish
BaseKey(item, f) ==
    IF f = MODGROUP /\ ~Truthy(Get(item, MODGROUP)) THEN GNAME ELSE f

\* the response of batch b is applied in this step and may have been `results`
AppliedNow(b, results) ==
    /\ Len(tApplied') = Len(tApplied) + 1
    /\ tApplied'[Len(tApplied')].batch = b
    /\ tData' = ApplyResults(tData, results, tDir).data

\* C17: in translateArabicToEnglish, for a submitted record field whose base
\* holds Arabic and whose companion is empty, a non-empty Oracle result leaves
\* the original base text in the companion and the Oracle's text in the base; an
\* empty result leaves both as they were.
C17_PreserveThenTranslate ==
    [][tDir = "en" =>
        \A b \in tInflight : \A mode \in OracleModes :
            LET request == (CHOOSE r \in Range(tRequests) : r.batch = b).list
                results == Oracle(mode, tDir, request)
            IN  AppliedNow(b, results) =>
                \A e \in DOMAIN request : \A k \in DOMAIN TR_FIELDS :
                    LET j == tBatches[b + 1][e] + 1
                        f == TR_FIELDS[k]
                        key == BaseKey(tData[j], f)
                        base == MainOf(tData[j], f)
                    IN  (hasArabicText(base) /\ ~Truthy(CompanionOf(tData[j], f))) =>
                            IF Truthy(results[e].texts[k])
                            THEN /\ Get(tData'[j], Ar(key)) = base
                                 /\ Get(tData'[j], key) = results[e].texts[k]
                            ELSE /\ Get(tData'[j], key) = Get(tData[j], key)
                                 /\ Get(tData'[j], Ar(key)) = Get(tData[j], Ar(key))]_vars

----------------------------------------------------------------------------
(* Properties of the orchestrated run                                      *)

\* the Modifier Name of record j awaits its Arabic companion when the
\* ensure-Arabic phase begins
AwaitsArabicName(j) ==
    LET name == StringOf(tInput[j], MODNAME)
    IN  Truthy(name) /\ ~hasArabicText(name) /\ ~Truthy(Get(tInput[j], Ar(MODNAME)))

\* C18: in modifier mode with English-to-Arabic translation enabled, when a
\* batch succeeds with a translation for everything that was sent, every record
\* of it with a non-empty, non-Arabic Modifier Name and an empty companion has a
\* non-empty Modifier Name[ar-ae] afterwards.
C18_ModifierNamesTranslated ==
    [][(rMode = "modifier" /\ rPc = "arabicRunning") =>
        \A b \in tInflight : \A mode \in {"ok", "eager"} :
            LET request == (CHOOSE r \in Range(tRequests) : r.batch = b).list
            IN  AppliedNow(b, Oracle(mode, tDir, request)) =>
                    \A j \in Submitted(b) :
                        AwaitsArabicName(j) => Truthy(Get(tData'[j], Ar(MODNAME)))]_vars

\* the companion columns the Oracle was the first to populate: some record
\* holds Oracle text there, and no record the transformation returned had a
\* value there
OracleColumns ==
    {c \in {Ar(TR_FIELDS[k]) : k \in DOMAIN TR_FIELDS} :
        /\ \E j \in DOMAIN rData :
               Truthy(Get(rData[j], c)) /\ Head(Get(rData[j], c)) = "AR_tr"
        /\ \A j \in DOMAIN Transformed : ~Truthy(Get(Transformed[j], c))}

\* column c is in the list, immediately after its base column
FollowsBase(cols, c) ==
    \E n \in DOMAIN cols : n > 1 /\ cols[n] = c /\ Ar(cols[n - 1]) = c

\* C19: column synthesis comes last: every Arabic companion column the Oracle
\* was the first to populate is in the column list of the export, immediately
\* after its base column, in menu mode and in modifier mode.
C19_OracleColumnsExported ==
    rPc = "exported" => \A c \in OracleColumns : FollowsBase(rExport, c)

----------------------------------------------------------------------------
(* Properties of the image synchronisation                                 *)

\* a generation call of this run has answered 429
RateLimited == \E n \in DOMAIN sCalls : sCalls[n].answer = "429"

\* C20: after a generation call answers 429 no further generation call is
\* started in the run, and every image assigned to a record stays assigned.
C20_RateLimitHalts ==
    [][RateLimited =>
          /\ sCalls' = sCalls
          /\ \A j \in DOMAIN sData : sData[j].url # "" => sData'[j].url = sData[j].url]_vars

----------------------------------------------------------------------------
(* Properties of normalizeRow                                              *)

\* the key the cell of a language-tagged raw header belongs under: the alias of
\* the lowercased, trimmed base, or the base itself, with the [ar-ae] suffix
\* for the Arabic tags
LanguageKey(key) ==
    LET base == Trim(Front(key))
        canonical == MapHeader(Trim(LowerS(base)), base)
    IN  IF LowerTok(Last(key)) \in ArabicLang THEN canonical \o <<SUFFIX>> ELSE canonical

\* C21: for a raw header `<base> (LANG)` or `<base> [LANG]`, LANG one of en, ar,
\* ar-ae in any case, with or without the space, normalizeRow writes the cell
\* under <canonical>[ar-ae] (LANG ar or ar-ae) or <canonical> (LANG en), where
\* <canonical> is the alias of the lowercased, trimmed base, or the base itself
\* when the alias table has no entry for it.
C21_LanguageHeaders ==
    [][(nPc = "loop" /\ nJ < Len(nRow) /\ HasLanguage(nRow[nJ + 1].k)) =>
          Get(nOut', LanguageKey(nRow[nJ + 1].k)) = nRow[nJ + 1].v]_vars

----------------------------------------------------------------------------
(* Properties of the continuation rows of transformMenuData                *)

\* row i - 1 was skipped by the loop: not a continuation, no id and no name
PrecededByEmpty ==
    /\ i >= 1
    /\ LET prev == normalizeRow(RawRow(i - 1))
       IN  /\ ~(IsTranslationRow(prev) /\ options.extractArabic)
           /\ ~BoolOr(Truthy(Get(prev, ID)), Truthy(ItemNameOf(prev)))

\* the loop is at a continuation row
AtContinuation == Looping /\ options.extractArabic /\ IsTranslationRow(CurrentRow)

\* C22: a continuation row whose immediately preceding row was skipped as
\* empty has no current primary: transformMenuData reports it as an orphan
\* anomaly and modifies no record, even when an earlier primary exists.
C22_OrphanAfterEmptyRow ==
    [][(AtContinuation /\ PrecededByEmpty) =>
          /\ transformedData' = transformedData
          /\ anomalies' = Append(anomalies, OrphanAnomaly(i, ItemNameOf(CurrentRow)))]_vars

\* the name field of a continuation row that carried the marker: the first
\* truthy one of item name, modifier name, group name
MarkerField(row) ==
    IF Truthy(Get(row, NAME)) THEN NAME
    ELSE IF Truthy(Get(row, MODNAME)) THEN MODNAME
    ELSE MODGROUP

\* C23: the Arabic companion a continuation row writes is the companion of the
\* name field that carried the marker (item name, modifier name or group
\* name), whatever the other name fields of the row contain.
C23_CompanionFollowsMarker ==
    [][(AtContinuation /\ currentItem # 0) =>
          Get(transformedData'[currentItem], Ar(MarkerField(CurrentRow)))
              = Trim(ReplaceFirst(ItemNameOf(CurrentRow), MARK))]_vars

\* the orphan anomalies of a stats object
Orphans(stats) == {a \in DOMAIN stats.anomalies : stats.anomalies[a].kind = "orphan"}

\* C29: in the value transformMenuData returns, totalItemsProcessed +
\* arabicTranslationsFound + the number of orphan anomalies is at most
\* totalRawRows, totalItemsProcessed is the number of returned records, and
\* arabicTranslationsFound is the number of continuation rows merged into a
\* record.
C29_RowAccounting ==
    Done =>
        /\ result.stats.totalItemsProcessed + result.stats.arabicTranslationsFound
               + Cardinality(Orphans(result.stats)) <= result.stats.totalRawRows
        /\ result.stats.totalItemsProcessed = Len(result.data)
        /\ result.stats.arabicTranslationsFound = Cardinality(merged)

\* a run with a record, a merged continuation, a skipped row: 1 + 1 + 0 < 3
C29_Witness ==
    /\ Done
    /\ result.stats.totalRawRows = 3
    /\ result.stats.totalItemsProcessed = 1
    /\ result.stats.arabicTranslationsFound = 1
    /\ Orphans(result.stats) = {}

----------------------------------------------------------------------------
(* Properties of the batch pool and its progress reports                   *)

\* C24: the translation batches run as a work-conserving pool: while an
\* unsubmitted batch remains, a batch that completes is replaced at once by the
\* next one, so requests are outstanding only with the pool full (`concurrency`
\* in flight); no batch waits for the other in-flight batches to finish.
C24_WorkConservingPool ==
    (tPc = "pool" /\ tInflight # {} /\ tNext < Len(tBatches)) =>
        Cardinality(tInflight) = concurrency

\* C30: every progress callback of a translation run reports a `current` that
\* is at most its `total`, the number of selected records, also when that
\* number is not a multiple of the batch size.
C30_ProgressWithinTotal ==
    \A a \in Range(tApplied) : (a.batch + 1) * batchSize <= Len(Concat(tBatches))

----------------------------------------------------------------------------
(* Properties of the records of transformModifierData                      *)

\* `groupId` or `modifierId` of the row is truthy
HasModId(row) == BoolOr(Truthy(Get(row, GID)), Truthy(Get(row, MID)))

\* the input rows carrying a group id or a modifier id
ModIdRows == {r \in DOMAIN mRawData : HasModId(ModRawRow(r - 1))}

\* the n-th of them in input order
NthIdRow(n) == CHOOSE r \in ModIdRows : Cardinality({q \in ModIdRows : q <= r}) = n

\* C27: transformModifierData emits exactly one record for each input row that
\* has a non-empty group id or modifier id, in input order, the last one
\* flushed after the final row; a row with neither id that is no translation
\* row produces no record and leaves the accumulator unchanged.
C27_OneRecordPerIdRow ==
    /\ [](ModDone =>
            /\ Len(mResult.data) = Cardinality(ModIdRows)
            /\ \A j \in DOMAIN outputRows :
                   /\ Get(outputRows[j], GID) = Get(ModRawRow(NthIdRow(j) - 1), GID)
                   /\ Get(outputRows[j], MID) = Get(ModRawRow(NthIdRow(j) - 1), MID))
    /\ [][(ModLooping /\ ~HasModId(ModRawRow(mI)) /\ ~isTranslationRow(ModRawRow(mI))) =>
              (outputRows' = outputRows /\ currentModifier' = currentModifier)]_vars

----------------------------------------------------------------------------
(* Properties of a run with both translation directions                    *)

\* the ensure-Arabic phase of a run whose ensure-English phase has run; tInput
\* is the data ensure-English returned, Transformed the data it was given
BothDirections == rPc = "arabicRunning" /\ rOpts.autoTranslateArToEn

\* ensure-English wrote the base of field f of record j and its companion holds
\* the Arabic
EnglishWrote(j, f) ==
    /\ MainOf(tInput[j], f) # MainOf(Transformed[j], f)
    /\ hasArabicText(CompanionOf(tInput[j], f))

\* C25: with both directions enabled, a field that ensure-English translated
\* is not sent to the Oracle again by ensure-Arabic, and the Arabic preserved
\* in its companion is unchanged when the run ends.
C25_TranslatedOnce ==
    BothDirections =>
        \A j \in DOMAIN tInput, n \in DOMAIN TR_FIELDS :
            EnglishWrote(j, TR_FIELDS[n]) =>
                /\ \A r \in Range(tRequests) : \A e \in DOMAIN r.list :
                       tBatches[r.batch + 1][e] = j - 1 => r.list[e].texts[n] = EMPTY
                /\ tPc = "done" =>
                       CompanionOf(tData[j], TR_FIELDS[n]) = CompanionOf(tInput[j], TR_FIELDS[n])

\* the group name of record j was blanked by the flattening and its companion
\* holds the Arabic
GroupNameBlanked(j) ==
    Get(tData[j], GNAME) = EMPTY /\ hasArabicText(StringOf(tData[j], Ar(GNAME)))

\* C28: when the group name of a group row is Arabic, the flattening moves it
\* to the companion and blanks the base; a following ensure-English step whose
\* Oracle result is non-empty fills the blanked group name with the English
\* text, and the companion keeps the Arabic.
C28_BlankedGroupNameFilled ==
    /\ [][(ModLooping /\ Truthy(Get(ModRawRow(mI), GID))
              /\ hasArabicText(StringOf(ModRawRow(mI), GNAME))) =>
                /\ Get(currentModifier', GNAME) = EMPTY
                /\ Get(currentModifier', Ar(GNAME)) = StringOf(ModRawRow(mI), GNAME)]_vars
    /\ [][(rMode = "modifier" /\ rPc = "englishRunning") =>
            \A b \in tInflight : \A mode \in {"ok", "eager"} :
                LET request == (CHOOSE r \in Range(tRequests) : r.batch = b).list
                IN  AppliedNow(b, Oracle(mode, tDir, request)) =>
                        \A j \in Submitted(b) :
                            GroupNameBlanked(j) =>
                                /\ Truthy(Get(tData'[j], GNAME))
                                /\ ~hasArabicText(Get(tData'[j], GNAME))
                                /\ Get(tData'[j], Ar(GNAME)) = Get(tData[j], Ar(GNAME))]_vars

----------------------------------------------------------------------------
(* Properties of a repeated translation run                                *)

\* every batch of the run succeeded and its response carried translations
AllFilled == tFailed = {} /\ \A a \in Range(tApplied) : a.filled

\* C26: translateMissingArabic is idempotent: run again on the output of a run
\* in which every batch succeeded with non-empty translations, it changes no
\* field (the first pass copies nothing) and sends no request (no record is
\* selected).
C26_ArabicIdempotent ==
    (tDir = "ar" /\ tPc = "done" /\ AllFilled) =>
        LET passed == SubSeq([j \in DOMAIN tData |-> FirstPass(tData[j])], 1, Len(tData))
        IN  passed = tData /\ Selected(passed, "ar") = <<>>

====
